---- MODULE Spec2Model ----
(***************************************************************************)
(* Model of the Paymob checkout server (src/server.js): the in-memory      *)
(* checkout-session store with its two endpoints, the checkout submission   *)
(* endpoint with its calls to the commerce backend (Shopify) and the        *)
(* payment gateway (Paymob), and the webhook endpoint that Paymob notifies. *)
(*                                                                          *)
(* Node runs one handler at a time and a handler gives up control only at   *)
(* an await.  The two session endpoints contain no await, so each is one    *)
(* atomic action; the submission and webhook endpoints are one action per   *)
(* await.                                                                   *)
(***************************************************************************)
EXTENDS Integers, Sequences, FiniteSets, Bags, TLC

\* ------------------------------------------------------------------------
\* Bounds of the model
\* ------------------------------------------------------------------------
MaxTokens == 2
MaxInflight == 2
MaxDeliveries == 2
MaxClicks == 2

\* ------------------------------------------------------------------------
\* Session store: constants and input sets
\* ------------------------------------------------------------------------
SESSION_TTL_MS == 15 * 60 * 1000

\* The values crypto.randomBytes(24).toString('hex') can return.
Tokens == 1 .. MaxTokens

\* req.query.token of a request that carries no (or an empty) token parameter.
NoToken == 0

\* A request body of POST /api/checkout/render: { total, items: [...] }.
CartPayload == [total |-> 200, items |-> << [id |-> 1, price |-> 100, quantity |-> 2] >>]

\* express.json() leaves req.body empty (<<>>) or parses one payload (<<c>>).
Bodies == { << >>, << CartPayload >> }

\* The literal {} of `req.body || {}`.
EmptyObject == [total |-> 0, items |-> << >>]

\* The instants (values of Date.now(), in ms since the process started) at which
\* requests are handled: they give the ages 0, 1, TTL - 1, TTL, TTL + 1 and more.
Instants == { 0, 1, SESSION_TTL_MS, SESSION_TTL_MS + 1, 2 * SESSION_TTL_MS + 1 }

\* No response sent yet.
NoResponse == [token |-> NoToken, status |-> 0, page |-> << >>, age |-> -1, rival |-> FALSE,
               servedBefore |-> 0, expiredBefore |-> 0, before |-> << >>]

VARIABLES
    checkoutSessions,   \* the Map: token -> [cart, createdAt]
    now,                \* Date.now()
    posted,             \* history: token -> cart stored by the intake that issued it
    inflight,           \* bag of the checkout-page requests received and not yet handled
    served,             \* history: bag of the tokens whose cart a response carried
    expiredSeen,        \* history: bag of the tokens a response reported expired
    pageResponse        \* the checkout-page response sent by the step just taken, if any

sessionVars == << checkoutSessions, now, posted, inflight, served, expiredSeen, pageResponse >>

VARIABLES
    variant,            \* which server runs: "current" (server.js) or "earlier" (part_002)
    env,                \* process.env
    req,                \* body of the submission being handled
    pc,                 \* where the submission handler stands
    locals,             \* the handler's local variables
    calls,              \* history: the calls issued to the collaborators, in order
    responses           \* history: the responses sent to the client, in order

checkoutVars == << variant, env, req, pc, locals, calls, responses >>

VARIABLES
    hookReq,            \* the payment notification delivered to the webhook endpoint
    hookPc,             \* where the webhook handler stands
    hookResponses       \* history: the responses of the webhook endpoint, in order

webhookVars == << hookReq, hookPc, hookResponses >>

VARIABLES
    flows,              \* storefront script: the async flow started by each click
    href                \* storefront script: window.location.href, "" until it is assigned

storefrontVars == << flows, href >>

vars == << sessionVars, checkoutVars, webhookVars, storefrontVars >>

\* ------------------------------------------------------------------------
\* Session store: operations
\* ------------------------------------------------------------------------

\* createCheckoutToken(): 24 random bytes; a token already issued is not
\* returned again (collision of 192-bit random values).
createCheckoutToken == Tokens \ DOMAIN posted

\* Map.prototype.set / delete on checkoutSessions.
MapSet(m, k, v) == [x \in (DOMAIN m) \cup {k} |-> IF x = k THEN v ELSE m[x]]

\* Mutant: delete that removes nothing.
MapDeleteNothing(m, k) == m

MapDelete(m, k) == [x \in (DOMAIN m) \ {k} |-> m[x]]

\* Mutant: no session ever expires.
SessionNeverExpired(createdAt) == FALSE

\* Mutant: a session expires as soon as its age reaches the TTL.
SessionExpiredAtTTL(createdAt) == now - createdAt >= SESSION_TTL_MS

\* The expiry test of the checkout-page handler.
SessionExpired(createdAt) == now - createdAt > SESSION_TTL_MS

\* Mutant: the page always embeds the default cart.
DefaultCartPageHtml(cart) == << EmptyObject >>

\* getCartPayloadCheckoutPageHtml(cart): the page embeds JSON.stringify(cart || default);
\* the stored cart is an object, never falsy.
getCartPayloadCheckoutPageHtml(cart) == << cart >>

SessionInit ==
    /\ checkoutSessions = << >>
    /\ now = 0
    /\ posted = << >>
    /\ inflight = EmptyBag
    /\ served = EmptyBag
    /\ expiredSeen = EmptyBag
    /\ pageResponse = NoResponse

\* No submission has been received.
CheckoutIdle ==
    /\ variant = "current"
    /\ env = << >>
    /\ req = << >>
    /\ pc = "idle"
    /\ locals = << >>
    /\ calls = << >>
    /\ responses = << >>

\* No payment notification has been received.
WebhookIdle ==
    /\ hookReq = << >>
    /\ hookPc = "idle"
    /\ hookResponses = << >>

\* The clicks the storefront page receives.
ClickIds == 1 .. MaxClicks

\* A click that has not happened yet.
NoFlow ==
    [pc |-> "none", prevented |-> FALSE, country |-> "", cartData |-> << >>,
     data |-> << >>, nav |-> << >>]

\* The storefront page has been loaded and nothing was clicked.
StorefrontIdle ==
    /\ flows = [i \in ClickIds |-> NoFlow]
    /\ href = ""

\* Mutant: a timer removes the expired entries as time passes.
TickWithSweep ==
    /\ \E t \in Instants :
          /\ t > now
          /\ now' = t
          /\ checkoutSessions' =
                [k \in { x \in DOMAIN checkoutSessions :
                           t - checkoutSessions[x].createdAt <= SESSION_TTL_MS }
                    |-> checkoutSessions[k]]
    /\ pageResponse' = NoResponse
    /\ UNCHANGED << posted, inflight, served, expiredSeen >>
    /\ UNCHANGED << checkoutVars, webhookVars, storefrontVars >>

\* Time passes.
Tick ==
    /\ \E t \in Instants : t > now /\ now' = t
    /\ pageResponse' = NoResponse
    /\ UNCHANGED << checkoutSessions, posted, inflight, served, expiredSeen >>
    /\ UNCHANGED << checkoutVars, webhookVars, storefrontVars >>

\* POST /api/checkout/render
CheckoutRender ==
    \E body \in Bodies, token \in createCheckoutToken :
        LET cart == IF body = << >> THEN EmptyObject ELSE body[1] IN
        /\ checkoutSessions' = MapSet(checkoutSessions, token, [cart |-> cart, createdAt |-> now])
        /\ posted' = MapSet(posted, token, cart)
        /\ pageResponse' = NoResponse
        /\ UNCHANGED << now, inflight, served, expiredSeen >>
        /\ UNCHANGED << checkoutVars, webhookVars, storefrontVars >>

\* A GET /api/checkout/page request reaches the process.
PageRequestArrives ==
    \E token \in Tokens \cup {NoToken} :
        /\ BagCardinality(inflight) < MaxInflight
        /\ inflight' = inflight (+) SetToBag({ [token |-> token, rival |-> FALSE] })
        /\ pageResponse' = NoResponse
        /\ UNCHANGED << checkoutSessions, now, posted, served, expiredSeen >>
        /\ UNCHANGED << checkoutVars, webhookVars, storefrontVars >>

\* Mutant: the entry is deleted on expiry only, not after the page was served.
PageResultKeepsServed(token) ==
    IF token = NoToken
    THEN [status |-> 400, page |-> << >>, store |-> checkoutSessions]
    ELSE IF token \notin DOMAIN checkoutSessions
    THEN [status |-> 404, page |-> << >>, store |-> checkoutSessions]
    ELSE IF SessionExpired(checkoutSessions[token].createdAt)
    THEN [status |-> 410, page |-> << >>, store |-> MapDelete(checkoutSessions, token)]
    ELSE [status |-> 200,
          page |-> getCartPayloadCheckoutPageHtml(checkoutSessions[token].cart),
          store |-> checkoutSessions]

\* Mutant: no check for a missing token.
PageResultNoTokenCheck(token) ==
    IF token \notin DOMAIN checkoutSessions
    THEN [status |-> 404, page |-> << >>, store |-> checkoutSessions]
    ELSE IF SessionExpired(checkoutSessions[token].createdAt)
    THEN [status |-> 410, page |-> << >>, store |-> MapDelete(checkoutSessions, token)]
    ELSE [status |-> 200,
          page |-> getCartPayloadCheckoutPageHtml(checkoutSessions[token].cart),
          store |-> MapDelete(checkoutSessions, token)]

\* The response of the checkout-page handler and the store it leaves.
PageResult(token) ==
    IF token = NoToken
    THEN [status |-> 400, page |-> << >>, store |-> checkoutSessions]
    ELSE IF token \notin DOMAIN checkoutSessions
    THEN [status |-> 404, page |-> << >>, store |-> checkoutSessions]
    ELSE IF SessionExpired(checkoutSessions[token].createdAt)
    THEN [status |-> 410, page |-> << >>, store |-> MapDelete(checkoutSessions, token)]
    ELSE [status |-> 200,
          page |-> getCartPayloadCheckoutPageHtml(checkoutSessions[token].cart),
          store |-> MapDelete(checkoutSessions, token)]

\* The requests left in flight once request r was answered with `status`: the
\* others for the same token are marked as rivals of a request that got the cart.
MarkRivals(rest, r, status) ==
    IF status # 200 THEN rest
    ELSE LET kinds == { [k EXCEPT !.rival = (k.rival \/ k.token = r.token)] : k \in DOMAIN rest }
             Count(n) == LET from == { k \in DOMAIN rest :
                                        [k EXCEPT !.rival = (k.rival \/ k.token = r.token)] = n }
                             Sum[S \in SUBSET from] ==
                                 IF S = {} THEN 0
                                 ELSE LET k == CHOOSE x \in S : TRUE IN rest[k] + Sum[S \ {k}]
                         IN Sum[from]
         IN [n \in kinds |-> Count(n)]

\* GET /api/checkout/page: the handler runs, start to end.
CheckoutPage ==
    \E r \in DOMAIN inflight :
        LET res == PageResult(r.token)
            rest == inflight (-) SetToBag({r})
        IN
        /\ checkoutSessions' = res.store
        /\ inflight' = MarkRivals(rest, r, res.status)
        /\ served' = IF res.status = 200 THEN served (+) SetToBag({r.token}) ELSE served
        /\ expiredSeen' = IF res.status = 410 THEN expiredSeen (+) SetToBag({r.token})
                          ELSE expiredSeen
        /\ pageResponse' =
              [token |-> r.token, status |-> res.status, page |-> res.page,
               age |-> IF r.token \in DOMAIN checkoutSessions
                       THEN now - checkoutSessions[r.token].createdAt ELSE -1,
               rival |-> r.rival,
               servedBefore |-> CopiesIn(r.token, served),
               expiredBefore |-> CopiesIn(r.token, expiredSeen),
               before |-> checkoutSessions]
        /\ UNCHANGED << now, posted >>
        /\ UNCHANGED << checkoutVars, webhookVars, storefrontVars >>

SessionNext ==
    \/ Tick
    \/ CheckoutRender
    \/ PageRequestArrives
    \/ CheckoutPage

\* The session store on its own: no submission is handled.
Init == SessionInit /\ StorefrontIdle /\ CheckoutIdle /\ WebhookIdle

Spec == Init /\ [][SessionNext]_vars

\* ------------------------------------------------------------------------
\* Checkout submission: JavaScript values
\* ------------------------------------------------------------------------

\* A JavaScript number n is modelled by the integer n * Fix (three decimal
\* places), NaN by its own value.  On the inputs of this model (Prices,
\* Quantities, DraftTotals) the double-precision results of the code's
\* products, sums and Math.round coincide with the exact ones.
Fix == 10 * 10 * 10

Num(v) == [t |-> "number", nan |-> FALSE, v |-> v]

\* The number literal n of the source.
Lit(n) == Num(n * Fix)

NaN == [t |-> "number", nan |-> TRUE, v |-> 0]

Undefined == [t |-> "undefined", nan |-> FALSE, v |-> 0]

\* A string that is not the text of a number, such as 'abc'.
NonNumericString == [t |-> "string", nan |-> FALSE, v |-> 0]

\* ToBoolean
Truthy(x) ==
    \/ x.t = "string"
    \/ x.t = "number" /\ ~x.nan /\ x.v # 0

\* x || d
OrElse(x, d) == IF Truthy(x) THEN x ELSE d

\* Number(x), and the implicit ToNumber of the arithmetic operators
Number(x) == IF x.t = "number" THEN x ELSE NaN

\* (x * y) \div Fix and (x * Fix) \div y, computed without leaving 32 bits
FixMul(x, y) ==
    (x \div Fix) * (y \div Fix) * Fix + (x \div Fix) * (y % Fix) + (x % Fix) * (y \div Fix)
        + ((x % Fix) * (y % Fix)) \div Fix

FixDiv(x, y) == (x \div y) * Fix + ((x % y) * Fix) \div y

\* a + b on numbers
JsAdd(a, b) ==
    LET x == Number(a)
        y == Number(b)
    IN IF x.nan \/ y.nan THEN NaN ELSE Num(x.v + y.v)

\* a * b
JsMul(a, b) ==
    LET x == Number(a)
        y == Number(b)
    IN IF x.nan \/ y.nan THEN NaN ELSE Num(FixMul(x.v, y.v))

\* a / b, b a non-zero number
JsDiv(a, b) ==
    LET x == Number(a)
        y == Number(b)
    IN IF x.nan \/ y.nan THEN NaN ELSE Num(FixDiv(x.v, y.v))

\* Math.round(a): to the nearest integer, halves up
MathRound(a) ==
    LET x == Number(a) IN IF x.nan THEN NaN ELSE Num(((x.v + Fix \div 2) \div Fix) * Fix)

\* ------------------------------------------------------------------------
\* Checkout submission: inputs
\* ------------------------------------------------------------------------
MaxItems == 2

\* item.price: 1.004, 100, absent, or a non-numeric string
Prices == { Num(1004), Lit(100), Undefined, NonNumericString }

\* item.quantity: 1, 2 or absent
Quantities == { Lit(1), Lit(2), Undefined }

Items == [price : Prices, quantity : Quantities]

SeqsUpTo(S, n) == UNION { [1 .. k -> S] : k \in 0 .. n }

CartItemLists == SeqsUpTo(Items, MaxItems)

\* req.body.paymobMethod; "" stands for an absent method.
Methods == { "", "card", "wallet", "cod", "COD" }

\* Mutant: the letter case is kept.
ToLowerCaseKept(m) == m

\* String(x || '').toLowerCase(), on the strings of the model
ToLowerCase(m) ==
    IF m \in { "COD", "Cod" } THEN "cod"
    ELSE IF m \in { "WALLET", "Wallet" } THEN "wallet"
    ELSE IF m \in { "CARD", "Card" } THEN "card"
    ELSE m

\* process.env: each variable is unset, blank (only white space) or set.  To
\* the submission handler a variable set to the empty string is like an unset one.
EnvKeys ==
    { "SHOPIFY_STORE_DOMAIN", "SHOPIFY_ADMIN_ACCESS_TOKEN", "PAYMOB_API_KEY",
      "PAYMOB_INTEGRATION_ID", "PAYMOB_IFRAME_ID",
      "PAYMOB_INTEGRATION_ID_COD",
      "PAYMOB_INTEGRATION_ID_WALLET", "PAYMOB_IFRAME_ID_WALLET",
      "PAYMOB_INTEGRATION_ID_CARD", "PAYMOB_IFRAME_ID_CARD",
      "COD_SUCCESS_URL", "FRONTEND_URL", "PAYMOB_HMAC" }

EnvWith(unset, blank) ==
    [k \in EnvKeys |-> IF k \in unset THEN "unset" ELSE IF k \in blank THEN "blank" ELSE "set"]

IntegrationKeys ==
    { "PAYMOB_INTEGRATION_ID", "PAYMOB_INTEGRATION_ID_COD",
      "PAYMOB_INTEGRATION_ID_WALLET", "PAYMOB_INTEGRATION_ID_CARD" }

IframeKeys == { "PAYMOB_IFRAME_ID", "PAYMOB_IFRAME_ID_WALLET", "PAYMOB_IFRAME_ID_CARD" }

\* The configurations the submission endpoint is run under.
CheckoutEnvs ==
    { EnvWith({}, {}),
      EnvWith({"SHOPIFY_ADMIN_ACCESS_TOKEN"}, {}),
      EnvWith({"PAYMOB_API_KEY"}, {}),
      EnvWith(IntegrationKeys, {}),
      EnvWith(IframeKeys \cup {"COD_SUCCESS_URL"}, {}) }

\* Request bodies of POST /api/checkout/egypt.  cartItems is absent (<<>>) or
\* one list of items; billingData is present or not.
Requests ==
    [cartItems : { << >> } \cup { << c >> : c \in CartItemLists },
     paymobMethod : Methods,
     billingData : BOOLEAN]

\* HTTP statuses of a collaborator's rejection.
UpstreamStatuses == { 401, 422 }

\* error.response.data of a rejection: absent ("") or a JSON payload.
UpstreamPayloads == { "", "upstream payload" }

\* How an axios call ends other than by a 2xx response: a response with an
\* error status and maybe a payload, or no response at all (network error,
\* timeout).
Rejections ==
    { [kind |-> "http", status |-> st, data |-> d] : st \in UpstreamStatuses, d \in UpstreamPayloads }
        \cup { [kind |-> "net", status |-> 0, data |-> ""] }

\* A TypeError thrown by the handler's own code: it has no response.
TypeError == [kind |-> "type", status |-> 0, data |-> ""]

\* response.data.draft_order of the commerce backend: absent or { id }
DraftOrders == { << >>, << "draft-1" >> }

\* completeRes.data.draft_order.order_id: absent or an id
OrderIds == { << >>, << "order-1" >> }

\* draftOrder.total_price of the earlier server: '230.00', '12.345' or absent
DraftTotals == { Lit(230), Num(12345), Undefined }

\* ------------------------------------------------------------------------
\* Checkout submission: functions
\* ------------------------------------------------------------------------

\* process.env[k], as a value: "" when falsy, else the variable's name.
EnvValue(k) == IF env[k] = "unset" THEN "" ELSE k

\* Mutant: only the first missing key is reported.
getMissingEnvFirst(keys) ==
    LET missing == SelectSeq(keys, LAMBDA k : env[k] # "set")
    IN IF missing = << >> THEN << >> ELSE << missing[1] >>

\* getMissingEnv(keys): the keys unset or blank, in order
getMissingEnv(keys) == SelectSeq(keys, LAMBDA k : env[k] # "set")

\* Mutant: no fallback to the second identifier.
OrStrNoFallback(a, b) == a

\* a || b on configuration strings
OrStr(a, b) == IF a # "" THEN a ELSE b

\* getPaymobMethodConfig(paymobMethod)
getPaymobMethodConfig(paymobMethod) ==
    LET method == ToLowerCase(paymobMethod)
        defaults == [integrationId |-> EnvValue("PAYMOB_INTEGRATION_ID"),
                     iframeId |-> EnvValue("PAYMOB_IFRAME_ID")]
    IN IF method = "cod"
       THEN [integrationId |-> OrStr(EnvValue("PAYMOB_INTEGRATION_ID_COD"), defaults.integrationId),
             iframeId |-> ""]
       ELSE IF method = "wallet"
       THEN [integrationId |-> OrStr(EnvValue("PAYMOB_INTEGRATION_ID_WALLET"), defaults.integrationId),
             iframeId |-> OrStr(EnvValue("PAYMOB_IFRAME_ID_WALLET"), defaults.iframeId)]
       ELSE IF method = "card"
       THEN [integrationId |-> OrStr(EnvValue("PAYMOB_INTEGRATION_ID_CARD"), defaults.integrationId),
             iframeId |-> OrStr(EnvValue("PAYMOB_IFRAME_ID_CARD"), defaults.iframeId)]
       ELSE defaults

\* Mutant: the method is compared as sent.
IsCodCaseSensitive(paymobMethod) == paymobMethod = "cod"

\* Mutant: every submission takes the pay-on-delivery branch.
IsCodAlways(paymobMethod) == TRUE

\* The handler's test for the pay-on-delivery branch.
IsCod(paymobMethod) == ToLowerCase(paymobMethod) = "cod"

\* Number(item.price || 0) * (item.quantity || 1)
HandlerLineTotal(item) ==
    JsMul(Number(OrElse(item.price, Lit(0))), OrElse(item.quantity, Lit(1)))

\* cartItems.reduce((sum, item) => sum + (Number(item.price || 0) * (item.quantity || 1)), sum)
RECURSIVE ReduceLineTotals(_, _)
ReduceLineTotals(cartItems, sum) ==
    IF cartItems = << >> THEN sum
    ELSE ReduceLineTotals(Tail(cartItems), JsAdd(sum, HandlerLineTotal(Head(cartItems))))

\* The handler's itemsTotal.
ItemsTotal(cartItems) == ReduceLineTotals(cartItems, Lit(0))

\* The handler's totalAmount: itemsTotal + 100.
TotalAmount(cartItems) == JsAdd(ItemsTotal(cartItems), Lit(100))

\* createDraftOrder: the note attribute egp_total, String(egpTotal || 0)
EgpTotalAttribute(egpTotal) == OrElse(egpTotal, Lit(0))

\* paymobRegisterOrder: one entry of paymobItems
PaymobItem(item) ==
    [amount_cents |-> MathRound(JsMul(Number(item.price), Lit(100))),
     quantity |-> item.quantity]

\* paymobRegisterOrder: the flat-rate shipping line
ShippingItem == [amount_cents |-> Lit(10000), quantity |-> Lit(1)]

\* Mutant: no shipping line.
PaymobItemsWithoutShipping(items) == [i \in DOMAIN items |-> PaymobItem(items[i])]

\* paymobRegisterOrder: paymobItems
PaymobItems(items) == [i \in DOMAIN items |-> PaymobItem(items[i])] \o << ShippingItem >>

\* item.amount_cents * item.quantity
PaymobLineCents(item) == JsMul(item.amount_cents, item.quantity)

\* paymobItems.reduce((sum, item) => sum + item.amount_cents * item.quantity, sum)
RECURSIVE ReduceLineCents(_, _)
ReduceLineCents(paymobItems, sum) ==
    IF paymobItems = << >> THEN sum
    ELSE ReduceLineCents(Tail(paymobItems), JsAdd(sum, PaymobLineCents(Head(paymobItems))))

\* paymobRegisterOrder: totalCents
TotalCents(paymobItems) == ReduceLineCents(paymobItems, Lit(0))

\* paymobGetPaymentKey: amount_cents, Math.round(amount * 100)
PaymentKeyAmountCents(amount) == MathRound(JsMul(amount, Lit(100)))

\* Mutant: the payment key is asked for the handler's total, not for the
\* registered one.
PaymentKeyAmountFromTotal(exactTotalCents, totalAmount) == totalAmount

\* The amount the handler passes to paymobGetPaymentKey: exactTotalCents / 100.
PaymentKeyAmount(exactTotalCents, totalAmount) == JsDiv(exactTotalCents, Lit(100))

\* The handler's codRedirectUrl.
CodRedirectUrl(draftOrder) ==
    IF EnvValue("COD_SUCCESS_URL") # "" THEN "COD_SUCCESS_URL"
    ELSE IF EnvValue("FRONTEND_URL") # "" THEN "FRONTEND_URL/cod-thank-you?draft=" \o draftOrder[1]
    ELSE "/"

\* ------------------------------------------------------------------------
\* Checkout submission: POST /api/checkout/egypt of the current server
\* ------------------------------------------------------------------------

NoLocals ==
    [totalAmount |-> Undefined, paymobConfig |-> [integrationId |-> "", iframeId |-> ""],
     draftOrder |-> << >>, codRedirectUrl |-> "", totalCents |-> Undefined,
     shopifyOrderId |-> << >>, error |-> << >>]

\* res.status(status).json({ success: false, error })
Failure(status, error) ==
    [status |-> status, success |-> FALSE, error |-> error, details |-> "",
     paymentUrl |-> "", redirectUrl |-> ""]

\* Mutant: every caught error is answered 500 with its message.
UpstreamFailureAlways500(error) == Failure(500, "error.message")

\* The response of the handler's catch block: the upstream status and payload
\* when the error has a response, 500 otherwise.
UpstreamFailure(error) ==
    IF error.kind = "http"
    THEN [status |-> error.status, success |-> FALSE,
          error |-> IF error.data # "" THEN "data.error" ELSE "error.message",
          details |-> error.data, paymentUrl |-> "", redirectUrl |-> ""]
    ELSE Failure(500, "error.message")

\* Mutant: the pay-on-delivery branch reports the upstream status and payload.
CodFailurePropagated(e) == UpstreamFailure(e)

\* The response of the catch block of the pay-on-delivery branch.
CodFailure(e) == Failure(500, "Failed to complete COD order in Shopify")

\* The handler's catch block, for a TypeError thrown by the handler's own code.
TypeErrorFailure == Failure(500, "error.message")

\* Mutant: after a failure the handler starts over.
RespondThenRetry(r) ==
    /\ responses' = Append(responses, r)
    /\ pc' = IF r.success THEN "done" ELSE "idle"

\* Mutant: the response is sent twice.
RespondTwice(r) ==
    /\ responses' = Append(Append(responses, r), r)
    /\ pc' = "done"

\* res.json(...) followed by the handler's return: the submission is over.
Respond(r) ==
    /\ responses' = Append(responses, r)
    /\ pc' = "done"

\* Mutant: a call already made is not made again.
CallOnce(c) ==
    calls' = IF \E i \in DOMAIN calls : calls[i] = c THEN calls ELSE Append(calls, c)

\* An axios call is issued.
Call(c) == calls' = Append(calls, c)

\* Mutant: the catch block deletes the draft order before it responds.
CatchWithRollback(error) ==
    /\ Respond(UpstreamFailure(error))
    /\ locals' = [locals EXCEPT !.error = << error >>]
    /\ Call([op |-> "deleteDraftOrder"])

\* The handler's catch block: it responds and issues no call.
Catch(error) ==
    /\ Respond(UpstreamFailure(error))
    /\ locals' = [locals EXCEPT !.error = << error >>]
    /\ UNCHANGED calls

\* The catch block of the pay-on-delivery branch.
CodCatch(e) ==
    /\ Respond(CodFailure(e))
    /\ locals' = [locals EXCEPT !.error = << e >>]
    /\ UNCHANGED calls

\* Start of a submission: the body and the configuration it runs under.
SubmissionInit(variants, envs, requests) ==
    /\ variant \in variants
    /\ env \in envs
    /\ req \in requests
    /\ pc = "idle"
    /\ locals = NoLocals
    /\ calls = << >>
    /\ responses = << >>

\* The handler up to its first await: configuration checks, the total, and the
\* createDraftOrder call.
CheckoutEgypt ==
    /\ pc = "idle"
    /\ variant = "current"
    /\ LET missingShopify == getMissingEnv(<< "SHOPIFY_STORE_DOMAIN", "SHOPIFY_ADMIN_ACCESS_TOKEN" >>)
           missingPaymobBase == getMissingEnv(<< "PAYMOB_API_KEY" >>)
           paymobConfig == getPaymobMethodConfig(req.paymobMethod)
       IN IF missingShopify # << >>
          THEN /\ Respond(Failure(500, << "Missing Shopify env vars", missingShopify >>))
               /\ UNCHANGED << locals, calls >>
          ELSE IF missingPaymobBase # << >>
          THEN /\ Respond(Failure(500, << "Missing Paymob env vars", missingPaymobBase >>))
               /\ UNCHANGED << locals, calls >>
          ELSE IF paymobConfig.integrationId = ""
          THEN /\ Respond(Failure(500, "Paymob configuration missing (integration_id)"))
               /\ UNCHANGED << locals, calls >>
          ELSE IF req.cartItems = << >>
          THEN \* cartItems.reduce on undefined
               Catch(TypeError)
          ELSE LET totalAmount == TotalAmount(req.cartItems[1]) IN
               /\ locals' = [locals EXCEPT !.totalAmount = totalAmount,
                                           !.paymobConfig = paymobConfig]
               /\ Call([op |-> "createDraftOrder",
                        egp_total |-> EgpTotalAttribute(totalAmount),
                        tags |-> "paymob-pending,egp-prices"])
               /\ pc' = "awaitDraftOrder"
               /\ UNCHANGED responses
    /\ UNCHANGED << variant, env, req >>
    /\ UNCHANGED << sessionVars, webhookVars, storefrontVars >>

\* createDraftOrder returns or throws.
DraftOrderReturns ==
    /\ pc = "awaitDraftOrder"
    /\ variant = "current"
    /\ \/ \E rej \in Rejections : Catch(rej)
       \/ \E draftOrder \in DraftOrders :
            IF IsCod(req.paymobMethod)
            THEN IF draftOrder = << >>
                 THEN \* draftOrder.id on undefined, in codRedirectUrl or in the complete URL
                      IF EnvValue("COD_SUCCESS_URL") = "" /\ EnvValue("FRONTEND_URL") # ""
                      THEN Catch(TypeError)
                      ELSE CodCatch(TypeError)
                 ELSE /\ locals' = [locals EXCEPT !.draftOrder = draftOrder,
                                                  !.codRedirectUrl = CodRedirectUrl(draftOrder)]
                      /\ Call([op |-> "completeDraftOrder", draft |-> draftOrder[1],
                               payment_pending |-> TRUE])
                      /\ pc' = "awaitComplete"
                      /\ UNCHANGED responses
            ELSE /\ locals' = [locals EXCEPT !.draftOrder = draftOrder]
                 /\ Call([op |-> "paymobAuthenticate"])
                 /\ pc' = "awaitAuth"
                 /\ UNCHANGED responses
    /\ UNCHANGED << variant, env, req >>
    /\ UNCHANGED << sessionVars, webhookVars, storefrontVars >>

\* The call completing the draft order of a pay-on-delivery submission returns or throws.
CompleteReturns ==
    /\ pc = "awaitComplete"
    /\ variant = "current"
    /\ \/ \E rej \in Rejections : CodCatch(rej)
       \/ \E shopifyOrderId \in OrderIds :
            IF shopifyOrderId # << >>
            THEN /\ locals' = [locals EXCEPT !.shopifyOrderId = shopifyOrderId]
                 /\ Call([op |-> "tagOrder", order |-> shopifyOrderId[1],
                          payment_method |-> "cod", is_cod |-> "true",
                          is_card |-> "false", is_wallet |-> "false"])
                 /\ pc' = "awaitTag"
                 /\ UNCHANGED responses
            ELSE /\ Respond([status |-> 200, success |-> TRUE, error |-> "", details |-> "",
                             paymentUrl |-> "", redirectUrl |-> locals.codRedirectUrl])
                 /\ UNCHANGED << locals, calls >>
    /\ UNCHANGED << variant, env, req >>
    /\ UNCHANGED << sessionVars, webhookVars, storefrontVars >>

\* The call tagging the order of a pay-on-delivery submission returns or throws.
TagReturns ==
    /\ pc = "awaitTag"
    /\ variant = "current"
    /\ \/ \E rej \in Rejections : CodCatch(rej)
       \/ /\ Respond([status |-> 200, success |-> TRUE, error |-> "", details |-> "",
                      paymentUrl |-> "", redirectUrl |-> locals.codRedirectUrl])
          /\ UNCHANGED << locals, calls >>
    /\ UNCHANGED << variant, env, req >>
    /\ UNCHANGED << sessionVars, webhookVars, storefrontVars >>

\* paymobAuthenticate returns or throws; on a token the handler goes on to
\* paymobRegisterOrder.
AuthenticateReturns ==
    /\ pc = "awaitAuth"
    /\ variant = "current"
    /\ \/ \E rej \in Rejections : Catch(rej)
       \/ IF locals.draftOrder = << >>
          THEN \* draftOrder.id on undefined
               Catch(TypeError)
          ELSE LET paymobItems == PaymobItems(req.cartItems[1])
                   totalCents == TotalCents(paymobItems)
               IN /\ locals' = [locals EXCEPT !.totalCents = totalCents]
                  /\ Call([op |-> "paymobRegisterOrder", amount_cents |-> totalCents,
                           merchant_order_id |-> locals.draftOrder[1],
                           items |-> paymobItems])
                  /\ pc' = "awaitRegister"
                  /\ UNCHANGED responses
    /\ UNCHANGED << variant, env, req >>
    /\ UNCHANGED << sessionVars, webhookVars, storefrontVars >>

\* paymobRegisterOrder returns or throws; on success the handler goes on to
\* paymobGetPaymentKey with the registered total.
RegisterOrderReturns ==
    /\ pc = "awaitRegister"
    /\ variant = "current"
    /\ \/ \E rej \in Rejections : Catch(rej)
       \/ IF ~req.billingData
          THEN \* billingData.apartment on undefined, before the call is made
               Catch(TypeError)
          ELSE LET exactTotalCents == locals.totalCents
                   amount == PaymentKeyAmount(exactTotalCents, locals.totalAmount)
               IN /\ Call([op |-> "paymobGetPaymentKey",
                           amount_cents |-> PaymentKeyAmountCents(amount),
                           integration_id |-> locals.paymobConfig.integrationId])
                  /\ pc' = "awaitPaymentKey"
                  /\ UNCHANGED << locals, responses >>
    /\ UNCHANGED << variant, env, req >>
    /\ UNCHANGED << sessionVars, webhookVars, storefrontVars >>

\* paymobGetPaymentKey returns or throws.
PaymentKeyReturns ==
    /\ pc = "awaitPaymentKey"
    /\ variant = "current"
    /\ \/ \E rej \in Rejections : Catch(rej)
       \/ /\ Respond([status |-> 200, success |-> TRUE, error |-> "", details |-> "",
                      paymentUrl |-> IF locals.paymobConfig.iframeId # ""
                                     THEN "iframes/" \o locals.paymobConfig.iframeId
                                     ELSE "null",
                      redirectUrl |-> ""])
          /\ UNCHANGED << locals, calls >>
    /\ UNCHANGED << variant, env, req >>
    /\ UNCHANGED << sessionVars, webhookVars, storefrontVars >>

CheckoutNext ==
    \/ CheckoutEgypt
    \/ DraftOrderReturns
    \/ CompleteReturns
    \/ TagReturns
    \/ AuthenticateReturns
    \/ RegisterOrderReturns
    \/ PaymentKeyReturns

CheckoutInit == SessionInit /\ StorefrontIdle /\ SubmissionInit({"current"}, CheckoutEnvs, Requests) /\ WebhookIdle

CheckoutSpec == CheckoutInit /\ [][CheckoutNext]_vars

\* The methods sent to the handler when the resolution of identifiers is
\* checked: "" (absent), the three methods in three letter cases, and a
\* name the server does not know.
MethodNames ==
    { "", "card", "Card", "CARD", "wallet", "Wallet", "WALLET", "cod", "Cod", "COD", "cash" }

MethodConfigRequests ==
    [cartItems : { << << [price |-> Lit(100), quantity |-> Lit(2)] >> >> },
     paymobMethod : MethodNames,
     billingData : { TRUE }]

\* Every combination of the seven identifiers set or unset.
MethodConfigEnvs == { EnvWith(unset, {}) : unset \in SUBSET (IntegrationKeys \cup IframeKeys) }

MethodConfigInit ==
    SessionInit /\ StorefrontIdle /\ SubmissionInit({"current"}, MethodConfigEnvs, MethodConfigRequests) /\ WebhookIdle

MethodConfigSpec == MethodConfigInit /\ [][CheckoutNext]_vars

\* The submissions whose termination is checked: no cart or one cart of one
\* item, every method, with and without billing data.
TerminationRequests ==
    [cartItems : { << >>, << << [price |-> Lit(100), quantity |-> Lit(2)] >> >> },
     paymobMethod : Methods,
     billingData : BOOLEAN]

TerminationInit ==
    SessionInit /\ StorefrontIdle /\ SubmissionInit({"current"}, CheckoutEnvs, TerminationRequests) /\ WebhookIdle

\* Every awaited collaborator call returns or fails, and the handler's own
\* code between two awaits runs to the next await: each step of the handler
\* that can be taken is eventually taken.
TerminationSpec == TerminationInit /\ [][CheckoutNext]_vars /\ WF_vars(CheckoutNext)

\* ------------------------------------------------------------------------
\* Checkout submission: POST /api/checkout/egypt of the earlier server, which
\* takes the total from the draft order
\* ------------------------------------------------------------------------

\* parseFloat(draftOrder.total_price)
ParseFloat(x) == Number(x)

\* The earlier paymobRegisterOrder: one entry of items
EarlierPaymobItem(item) ==
    [amount_cents |-> MathRound(JsMul(item.price, Lit(100))), quantity |-> item.quantity]

\* The earlier handler up to its first await.
EarlierCheckoutEgypt ==
    /\ pc = "idle"
    /\ variant = "earlier"
    /\ IF req.cartItems = << >>
       THEN \* cartItems.map on undefined
            /\ Respond(TypeErrorFailure)
            /\ UNCHANGED calls
       ELSE /\ Call([op |-> "createDraftOrder", egp_total |-> Undefined,
                     tags |-> "paymob-pending"])
            /\ pc' = "awaitDraftOrder"
            /\ UNCHANGED responses
    /\ UNCHANGED << variant, env, req, locals >>
    /\ UNCHANGED << sessionVars, webhookVars, storefrontVars >>

\* createDraftOrder returns or throws; the total is the draft order's.
EarlierDraftOrderReturns ==
    /\ pc = "awaitDraftOrder"
    /\ variant = "earlier"
    /\ \/ \E rej \in Rejections :
            /\ Respond(Failure(500, "error.message"))
            /\ UNCHANGED << locals, calls >>
       \/ \E total_price \in DraftTotals :
            /\ locals' = [locals EXCEPT !.draftOrder = << "draft-1" >>,
                                        !.totalAmount = ParseFloat(total_price)]
            /\ Call([op |-> "paymobAuthenticate"])
            /\ pc' = "awaitAuth"
            /\ UNCHANGED responses
    /\ UNCHANGED << variant, env, req >>
    /\ UNCHANGED << sessionVars, webhookVars, storefrontVars >>

\* paymobAuthenticate returns or throws; then paymobRegisterOrder.
EarlierAuthenticateReturns ==
    /\ pc = "awaitAuth"
    /\ variant = "earlier"
    /\ \/ \E rej \in Rejections :
            /\ Respond(Failure(500, "error.message"))
            /\ UNCHANGED calls
       \/ /\ Call([op |-> "paymobRegisterOrder",
                   amount_cents |-> MathRound(JsMul(locals.totalAmount, Lit(100))),
                   merchant_order_id |-> locals.draftOrder[1],
                   items |-> [i \in DOMAIN req.cartItems[1] |->
                                 EarlierPaymobItem(req.cartItems[1][i])]])
          /\ pc' = "awaitRegister"
          /\ UNCHANGED responses
    /\ UNCHANGED << variant, env, req, locals >>
    /\ UNCHANGED << sessionVars, webhookVars, storefrontVars >>

\* paymobRegisterOrder returns or throws; then paymobGetPaymentKey.
EarlierRegisterOrderReturns ==
    /\ pc = "awaitRegister"
    /\ variant = "earlier"
    /\ \/ \E rej \in Rejections :
            /\ Respond(Failure(500, "error.message"))
            /\ UNCHANGED calls
       \/ IF ~req.billingData
          THEN /\ Respond(TypeErrorFailure)
               /\ UNCHANGED calls
          ELSE /\ Call([op |-> "paymobGetPaymentKey",
                        amount_cents |-> PaymentKeyAmountCents(locals.totalAmount),
                        integration_id |-> EnvValue("PAYMOB_INTEGRATION_ID")])
               /\ pc' = "awaitPaymentKey"
               /\ UNCHANGED responses
    /\ UNCHANGED << variant, env, req, locals >>
    /\ UNCHANGED << sessionVars, webhookVars, storefrontVars >>

\* paymobGetPaymentKey returns or throws.
EarlierPaymentKeyReturns ==
    /\ pc = "awaitPaymentKey"
    /\ variant = "earlier"
    /\ \/ \E rej \in Rejections : Respond(Failure(500, "error.message"))
       \/ Respond([status |-> 200, success |-> TRUE, error |-> "", details |-> "",
                   paymentUrl |-> "iframes/" \o EnvValue("PAYMOB_IFRAME_ID"),
                   redirectUrl |-> ""])
    /\ UNCHANGED << variant, env, req, locals, calls >>
    /\ UNCHANGED << sessionVars, webhookVars, storefrontVars >>

\* Both servers, on the gateway methods.
VariantsNext ==
    \/ CheckoutEgypt
    \/ DraftOrderReturns
    \/ CompleteReturns
    \/ TagReturns
    \/ AuthenticateReturns
    \/ RegisterOrderReturns
    \/ PaymentKeyReturns
    \/ EarlierCheckoutEgypt
    \/ EarlierDraftOrderReturns
    \/ EarlierAuthenticateReturns
    \/ EarlierRegisterOrderReturns
    \/ EarlierPaymentKeyReturns

VariantsInit ==
    /\ SessionInit
    /\ StorefrontIdle
    /\ SubmissionInit({"current", "earlier"}, { EnvWith({}, {}) }, Requests)
    /\ WebhookIdle

VariantsSpec == VariantsInit /\ [][VariantsNext]_vars

\* ------------------------------------------------------------------------
\* Checkout submission under every state of the required configuration
\* ------------------------------------------------------------------------

\* The variables the configuration check of a card submission reads.
RequiredKeys ==
    { "SHOPIFY_STORE_DOMAIN", "SHOPIFY_ADMIN_ACCESS_TOKEN", "PAYMOB_API_KEY",
      "PAYMOB_INTEGRATION_ID", "PAYMOB_INTEGRATION_ID_CARD" }

\* Every way of leaving the required variables unset, blank or set; the
\* integration ids of the other methods are unset.
ConfigEnvs ==
    { EnvWith(unset \cup { "PAYMOB_INTEGRATION_ID_COD", "PAYMOB_INTEGRATION_ID_WALLET" }, blank) :
        unset \in SUBSET RequiredKeys, blank \in SUBSET RequiredKeys }

\* Submissions of one cart, with each method.
ConfigRequests ==
    [cartItems : { << << [price |-> Lit(100), quantity |-> Lit(2)] >> >> },
     paymobMethod : Methods,
     billingData : BOOLEAN]

ConfigInit == SessionInit /\ StorefrontIdle /\ SubmissionInit({"current"}, ConfigEnvs, ConfigRequests) /\ WebhookIdle

ConfigSpec == ConfigInit /\ [][CheckoutNext]_vars

\* ------------------------------------------------------------------------
\* Webhook: values of a notification
\* ------------------------------------------------------------------------

\* The values of the fields of a notification's body: a string, a boolean, an
\* object { merchant_order_id } or undefined; s is the text of the value, for
\* an object its merchant_order_id.
JsString(s) == [t |-> "string", s |-> s]

JsBoolean(b) == [t |-> "boolean", s |-> IF b THEN "true" ELSE "false"]

JsObject(merchant_order_id) == [t |-> "object", s |-> merchant_order_id]

JsUndefined == [t |-> "undefined", s |-> "undefined"]

\* The number NaN.
JsNaN == [t |-> "number", s |-> "NaN"]

\* JsToString(x): an object is '[object Object]'.
JsToString(x) == IF x.t = "object" THEN "[object Object]" ELSE x.s

\* a + b: concatenation of the operands' texts when one of them is a string or
\* an object, else numeric addition, which is NaN when a is undefined or NaN
\* (a is never a boolean: no notification of the model starts with one).
JsPlus(a, b) ==
    IF a.t \in { "string", "object" } \/ b.t \in { "string", "object" }
    THEN JsString(JsToString(a) \o JsToString(b))
    ELSE JsNaN

\* The fields the handler concatenates, in its order.
SignedFields ==
    << "amount_cents", "created_at", "currency", "error_occured", "has_parent_transaction",
       "id", "integration_id", "is_3d_secure", "is_auth", "is_capture", "is_refunded",
       "is_standalone_payment", "is_voided", "order", "owner", "pending",
       "source_data_pan", "source_data_sub_type", "source_data_type", "success" >>

\* data.f1 + data.f2 + ... over the fields from position i on, sum being the
\* value of the fields before i
RECURSIVE ConcatenateFrom(_, _, _)
ConcatenateFrom(data, i, sum) ==
    IF i > Len(SignedFields) THEN sum
    ELSE ConcatenateFrom(data, i + 1, JsPlus(sum, data[SignedFields[i]]))

\* The handler's concatenatedString.
ConcatenatedString(data) == ConcatenateFrom(data, 2, data[SignedFields[1]])

\* crypto.createHmac('sha512', secret).update(message).digest('hex'): two
\* digests are equal only for the same secret and message.
Hmac(secret, message) == << secret, message >>

\* req.query.hmac of a request without the parameter.
NoSignature == << >>

\* Mutant: a request without a signature is let through.
InvalidSignatureUnlessAbsent(calculatedHmac, receivedHmac) ==
    receivedHmac # NoSignature /\ calculatedHmac # receivedHmac

\* calculatedHmac !== receivedHmac
InvalidSignature(calculatedHmac, receivedHmac) == calculatedHmac # receivedHmac

\* Mutant: any truthy value of success counts, the string 'false' too.
IsSuccessTruthy(success) ==
    \/ success.t = "string" /\ success.s # ""
    \/ success.t = "boolean" /\ success.s = "true"

\* data.success === 'true' || data.success === true
IsSuccess(success) == success.t \in { "string", "boolean" } /\ success.s = "true"

\* Mutant: the order itself is taken for its merchant order id.
MerchantOrderIdAsString(order) == JsToString(order)

\* data.order.merchant_order_id, data.order not undefined: a string has no
\* such property.
MerchantOrderId(order) == IF order.t = "object" THEN order.s ELSE "undefined"

\* ------------------------------------------------------------------------
\* Webhook: inputs
\* ------------------------------------------------------------------------

\* A notification with every field a string, for order draft-1.
BasePayload ==
    [amount_cents |-> JsString("10000"), created_at |-> JsString("2024-01-01T10:00:00"),
     currency |-> JsString("EGP"), error_occured |-> JsString("false"),
     has_parent_transaction |-> JsString("false"), id |-> JsString("7001"),
     integration_id |-> JsString("4001"), is_3d_secure |-> JsString("true"),
     is_auth |-> JsString("false"), is_capture |-> JsString("false"),
     is_refunded |-> JsString("false"), is_standalone_payment |-> JsString("true"),
     is_voided |-> JsString("false"), order |-> JsObject("draft-1"),
     owner |-> JsString("301"), pending |-> JsString("false"),
     source_data_pan |-> JsString("2346"), source_data_sub_type |-> JsString("MasterCard"),
     source_data_type |-> JsString("card"), success |-> JsString("true")]

\* A body without any of the fields.
EmptyBody == [f \in DOMAIN BasePayload |-> JsUndefined]

HookAmounts == { JsString("10000"), JsString("99") }

HookOrders == { JsObject("draft-1"), JsObject("draft-2"), JsString("draft-1"), JsUndefined }

HookSourceTypes == { JsString("card"), JsString("wallet"), JsString("WALLET") }

HookSuccesses ==
    { JsString("true"), JsBoolean(TRUE), JsString("false"), JsBoolean(FALSE), JsUndefined }

\* req.body of the notifications.
Payloads ==
    { [BasePayload EXCEPT !.amount_cents = a, !.order = o, !.source_data_type = st, !.success = su] :
        a \in HookAmounts, o \in HookOrders, st \in HookSourceTypes, su \in HookSuccesses }
        \cup { EmptyBody }

\* The secrets a sender signs with: the configured one and another one.
Secrets == { "PAYMOB_HMAC", "not the secret" }

\* req.query.hmac: absent, or the digest a sender computed, with either
\* secret, over a notification of amount 10000.
Signatures ==
    { NoSignature } \cup
    { Hmac(k, ConcatenatedString(q).s) :
        k \in Secrets, q \in { p \in Payloads : p.amount_cents = JsString("10000") } }

WebhookRequests == [data : Payloads, hmac : Signatures]

\* The configurations the webhook is run under: the secret set or unset.
WebhookEnvs == { EnvWith({}, {}), EnvWith({ "PAYMOB_HMAC" }, {}) }

\* ------------------------------------------------------------------------
\* Webhook: POST /api/paymob/callback.  The current server tags the order
\* after it completed it; the earlier server does not.
\* ------------------------------------------------------------------------

\* res.status(200).json({ received: true })
HookReceived == [status |-> 200, received |-> TRUE, error |-> ""]

\* res.status(status).json({ error })
HookError(status, error) == [status |-> status, received |-> FALSE, error |-> error]

HookRespond(r) ==
    /\ hookResponses' = Append(hookResponses, r)
    /\ hookPc' = "done"

\* The handler's catch block.
HookCatch ==
    /\ HookRespond(HookError(500, "error.message"))
    /\ UNCHANGED calls

\* A notification is delivered.
HookInit(requests) ==
    /\ hookReq \in requests
    /\ hookPc = "idle"
    /\ hookResponses = << >>

\* The handler up to its first await: the signature check, the success test
\* and the call completing the draft order.
PaymobCallback ==
    /\ hookPc = "idle"
    /\ LET data == hookReq.data
           hmacSecret == EnvValue("PAYMOB_HMAC")
           receivedHmac == hookReq.hmac
           concatenatedString == ConcatenatedString(data)
       IN IF hmacSecret = "" \/ concatenatedString.t # "string"
          THEN \* createHmac without a key, or update with a number: TypeError
               HookCatch
          ELSE IF InvalidSignature(Hmac(hmacSecret, concatenatedString.s), receivedHmac)
          THEN /\ HookRespond(HookError(400, "Invalid HMAC signature"))
               /\ UNCHANGED calls
          ELSE IF ~IsSuccess(data.success)
          THEN /\ HookRespond(HookReceived)
               /\ UNCHANGED calls
          ELSE IF data.order.t = "undefined"
          THEN \* data.order.merchant_order_id on undefined
               HookCatch
          ELSE /\ Call([op |-> "completeDraftOrder", draft |-> MerchantOrderId(data.order),
                        payment_pending |-> FALSE])
               /\ hookPc' = "awaitComplete"
               /\ UNCHANGED hookResponses
    /\ UNCHANGED << hookReq, variant, env, req, pc, locals, responses >>
    /\ UNCHANGED << sessionVars, storefrontVars >>

\* The call completing the draft order returns or throws.
CallbackCompleteReturns ==
    /\ hookPc = "awaitComplete"
    /\ \/ \E rej \in Rejections : HookCatch
       \/ /\ variant = "earlier"
          /\ HookRespond(HookReceived)
          /\ UNCHANGED calls
       \/ /\ variant = "current"
          /\ \E shopifyOrderId \in OrderIds :
                IF shopifyOrderId # << >>
                THEN LET sourceType == ToLowerCase(IF hookReq.data.source_data_type.t = "string"
                                                  THEN hookReq.data.source_data_type.s ELSE "")
                         isWallet == sourceType = "wallet"
                         isCard == ~isWallet
                     IN /\ Call([op |-> "tagOrder", order |-> shopifyOrderId[1],
                                 payment_method |-> IF isWallet THEN "wallet" ELSE "card",
                                 is_cod |-> "false",
                                 is_card |-> JsBoolean(isCard).s,
                                 is_wallet |-> JsBoolean(isWallet).s])
                        /\ hookPc' = "awaitTag"
                        /\ UNCHANGED hookResponses
                ELSE /\ HookRespond(HookReceived)
                     /\ UNCHANGED calls
    /\ UNCHANGED << hookReq, variant, env, req, pc, locals, responses >>
    /\ UNCHANGED << sessionVars, storefrontVars >>

\* The call tagging the order returns or throws.
CallbackTagReturns ==
    /\ hookPc = "awaitTag"
    /\ \/ \E rej \in Rejections : HookCatch
       \/ /\ HookRespond(HookReceived)
          /\ UNCHANGED calls
    /\ UNCHANGED << hookReq, variant, env, req, pc, locals, responses >>
    /\ UNCHANGED << sessionVars, storefrontVars >>

WebhookNext ==
    \/ PaymobCallback
    \/ CallbackCompleteReturns
    \/ CallbackTagReturns

\* No submission is handled while the webhook runs.
NoSubmission == [cartItems |-> << >>, paymobMethod |-> "", billingData |-> FALSE]

WebhookInit ==
    /\ SessionInit
    /\ StorefrontIdle
    /\ SubmissionInit({"current", "earlier"}, WebhookEnvs, { NoSubmission })
    /\ HookInit(WebhookRequests)

WebhookSpec == WebhookInit /\ [][WebhookNext]_vars

\* ------------------------------------------------------------------------
\* A submission and a payment notification handled by the same process, their
\* steps interleaved at the awaits
\* ------------------------------------------------------------------------

\* The submissions: one cart, billing data, every method.
FlowSubmissions ==
    [cartItems : { << << [price |-> Lit(100), quantity |-> Lit(2)] >> >> },
     paymobMethod : Methods,
     billingData : { TRUE }]

\* data.source_data_type: absent, or a type in some letter case
FlowSourceTypes ==
    { JsUndefined, JsString("card"), JsString("wallet"), JsString("WALLET"), JsString("Wallet") }

FlowPayloads ==
    { [BasePayload EXCEPT !.order = o, !.source_data_type = st, !.success = su] :
        o \in { JsObject("draft-1"), JsObject("draft-2") },
        st \in FlowSourceTypes,
        su \in { JsString("true"), JsBoolean(TRUE), JsString("false") } }

\* The notifications: unsigned, signed with the configured secret, or signed
\* with another one.
FlowNotifications ==
    UNION { { [data |-> p, hmac |-> h] :
                h \in { NoSignature } \cup { Hmac(k, ConcatenatedString(p).s) : k \in Secrets } } :
            p \in FlowPayloads }

FlowInit ==
    /\ SessionInit
    /\ StorefrontIdle
    /\ SubmissionInit({"current"}, { EnvWith({}, {}) }, FlowSubmissions)
    /\ HookInit(FlowNotifications)

FlowNext == CheckoutNext \/ WebhookNext

FlowSpec == FlowInit /\ [][FlowNext]_vars

\* ------------------------------------------------------------------------
\* Webhook: the same notification delivered again.  The handler reads and
\* writes no state of its own: a new delivery starts it from its first line.
\* ------------------------------------------------------------------------

\* The sender posts the notification again, whatever the answer to the
\* delivery before.
Redeliver ==
    /\ hookPc = "done"
    /\ Len(hookResponses) < MaxDeliveries
    /\ hookPc' = "idle"
    /\ UNCHANGED << hookReq, hookResponses >>
    /\ UNCHANGED << sessionVars, checkoutVars, storefrontVars >>

RedeliveryNext == WebhookNext \/ Redeliver

RedeliveryInit ==
    /\ SessionInit
    /\ StorefrontIdle
    /\ SubmissionInit({"current", "earlier"}, WebhookEnvs, { NoSubmission })
    /\ HookInit(FlowNotifications)

RedeliverySpec == RedeliveryInit /\ [][RedeliveryNext]_vars

\* ------------------------------------------------------------------------
\* Storefront script (public/egypt-checkout.js): the click listener and the
\* async flow it starts.  Every click starts its own flow; the flows of
\* several clicks interleave at their awaits.
\* ------------------------------------------------------------------------

\* What was clicked: an element inside a checkout element, another element,
\* or a target without closest().
ClickTargets == { "checkout", "other", "no closest" }

\* The body of the answer of the country service.
CountryTexts == { "EG", " EG\n", "US", "eg", "" }

\* String.prototype.trim, on the texts of the model
Trim(text) == IF text = " EG\n" THEN "EG" ELSE text

\* The JSON of /cart.js: total_price and prices in cents; items absent (<<>>)
\* or a list (<<list>>).
CartJsons ==
    { [total_price |-> 20000, items |-> << << [price |-> 10000, quantity |-> 2] >> >>],
      [total_price |-> 10000, items |-> << << [price |-> 5000, quantity |-> 1],
                                              [price |-> 5000, quantity |-> 1] >> >>],
      [total_price |-> 0, items |-> << << >> >>],
      [total_price |-> 0, items |-> << >>] }

\* getCartData() once /cart.js was parsed: null (<<>>) when cart.items.map
\* throws, else { total, items } in units.
CartDataOf(cart) ==
    IF cart.items = << >> THEN << >>
    ELSE << [total |-> cart.total_price \div 100,
             items |-> [k \in DOMAIN cart.items[1] |->
                          [price |-> cart.items[1][k].price \div 100,
                           quantity |-> cart.items[1][k].quantity]]] >>

\* The URL of the checkout page the backend answers with, and a string that
\* is no URL.
PageUrl == "https://paymob-eight.vercel.app/api/checkout/page?token=1"

NotAUrl == "http://["

\* The JSON of the answer of POST /api/checkout/render: null, or an object;
\* redirectUrl "" stands for an absent or empty one.
RenderJsons ==
    { [isNull |-> TRUE, success |-> FALSE, redirectUrl |-> ""] } \cup
    [isNull : { FALSE }, success : BOOLEAN, redirectUrl : { "", PageUrl, NotAUrl }]

\* The Location href setter parses the value against the page's URL and
\* throws a SyntaxError when that fails.
HrefSetterThrows(url) == url = NotAUrl

\* handleEgyptCheckout returns wasRedirected to the listener's async function.
Return(i, wasRedirected, fields) ==
    /\ flows' = [flows EXCEPT ![i] =
                    [k \in DOMAIN NoFlow |->
                        IF k = "pc" THEN IF wasRedirected THEN "returned true" ELSE "returned false"
                        ELSE IF k \in DOMAIN fields THEN fields[k]
                        ELSE flows[i][k]]]
    /\ UNCHANGED href

\* The flow goes on to its next await.
Goto(i, next, fields) ==
    /\ flows' = [flows EXCEPT ![i] =
                    [k \in DOMAIN NoFlow |->
                        IF k = "pc" THEN next
                        ELSE IF k \in DOMAIN fields THEN fields[k]
                        ELSE flows[i][k]]]
    /\ UNCHANGED href

NoFields == [x \in {} |-> 0]

\* The click listener: a click on a checkout element is intercepted and
\* starts handleEgyptCheckout, up to its first await.
Click ==
    /\ \E i \in ClickIds, target \in ClickTargets :
          /\ flows[i].pc = "none"
          /\ \A j \in ClickIds : j < i => flows[j].pc # "none"
          /\ IF target = "checkout"
             THEN Goto(i, "fetch country", [prevented |-> TRUE])
             ELSE Goto(i, "ignored", NoFields)
    /\ UNCHANGED << sessionVars, checkoutVars, webhookVars >>

\* fetch('https://ipapi.co/country/') settles.
CountryFetchSettles ==
    /\ \E i \in ClickIds :
          /\ flows[i].pc = "fetch country"
          /\ \/ Return(i, FALSE, NoFields)
             \/ Goto(i, "read country", NoFields)
    /\ UNCHANGED << sessionVars, checkoutVars, webhookVars >>

\* countryRes.text() settles; for 'EG' getCartData starts, up to fetch('/cart.js').
CountryTextSettles ==
    /\ \E i \in ClickIds :
          /\ flows[i].pc = "read country"
          /\ \/ Return(i, FALSE, NoFields)
             \/ \E text \in CountryTexts :
                  LET country == Trim(text) IN
                  IF country # "EG"
                  THEN Return(i, FALSE, [country |-> country])
                  ELSE Goto(i, "fetch cart", [country |-> country])
    /\ UNCHANGED << sessionVars, checkoutVars, webhookVars >>

\* fetch('/cart.js') settles; when it rejects getCartData returns null.
CartFetchSettles ==
    /\ \E i \in ClickIds :
          /\ flows[i].pc = "fetch cart"
          /\ \/ Return(i, FALSE, NoFields)
             \/ Goto(i, "read cart", NoFields)
    /\ UNCHANGED << sessionVars, checkoutVars, webhookVars >>

\* response.json() of /cart.js settles and getCartData returns; with a cart
\* that has items the flow posts it to /api/checkout/render.
CartJsonSettles ==
    /\ \E i \in ClickIds :
          /\ flows[i].pc = "read cart"
          /\ \/ Return(i, FALSE, NoFields)
             \/ \E cart \in CartJsons :
                  LET cartData == CartDataOf(cart) IN
                  IF cartData = << >> \/ Len(cartData[1].items) = 0
                  THEN Return(i, FALSE, [cartData |-> cartData])
                  ELSE Goto(i, "fetch render", [cartData |-> cartData])
    /\ UNCHANGED << sessionVars, checkoutVars, webhookVars >>

\* fetch(CHECKOUT_API_BASE + '/api/checkout/render') settles.
RenderFetchSettles ==
    /\ \E i \in ClickIds :
          /\ flows[i].pc = "fetch render"
          /\ \/ Return(i, FALSE, NoFields)
             \/ Goto(i, "read render", NoFields)
    /\ UNCHANGED << sessionVars, checkoutVars, webhookVars >>

\* response.json() of the backend's answer settles: on success with a
\* redirectUrl the flow assigns window.location.href and returns true.  A
\* null answer (data.success on null) and a redirectUrl the setter rejects
\* throw into the catch block, which returns false.
RenderJsonSettles ==
    /\ \E i \in ClickIds :
          /\ flows[i].pc = "read render"
          /\ \/ Return(i, FALSE, NoFields)
             \/ \E data \in RenderJsons :
                  IF data.isNull
                  THEN Return(i, FALSE, [data |-> << data >>])
                  ELSE IF data.success /\ data.redirectUrl # ""
                  THEN IF HrefSetterThrows(data.redirectUrl)
                       THEN Return(i, FALSE, [data |-> << data >>])
                       ELSE /\ flows' = [flows EXCEPT ![i].pc = "returned true",
                                                      ![i].data = << data >>,
                                                      ![i].nav = Append(@, data.redirectUrl)]
                            /\ href' = data.redirectUrl
                  ELSE Return(i, FALSE, [data |-> << data >>])
    /\ UNCHANGED << sessionVars, checkoutVars, webhookVars >>

\* Mutant: the listener goes to the native checkout whatever was returned.
HandleReturnedAlwaysCheckout(i) ==
    /\ flows[i].pc \in { "returned true", "returned false" }
    /\ flows' = [flows EXCEPT ![i].pc = "done", ![i].nav = Append(@, "/checkout")]
    /\ href' = "/checkout"

\* The listener's async function after `await handleEgyptCheckout()`.
HandleReturned(i) ==
    /\ flows[i].pc \in { "returned true", "returned false" }
    /\ IF flows[i].pc = "returned false"
       THEN /\ flows' = [flows EXCEPT ![i].pc = "done", ![i].nav = Append(@, "/checkout")]
            /\ href' = "/checkout"
       ELSE /\ flows' = [flows EXCEPT ![i].pc = "done"]
            /\ UNCHANGED href

ListenerResumes ==
    /\ \E i \in ClickIds : HandleReturned(i)
    /\ UNCHANGED << sessionVars, checkoutVars, webhookVars >>

\* The steps of the flows once started: what the settling of a fetch, or of
\* the reading of a body, lets run.
FlowSteps ==
    \/ CountryFetchSettles
    \/ CountryTextSettles
    \/ CartFetchSettles
    \/ CartJsonSettles
    \/ RenderFetchSettles
    \/ RenderJsonSettles
    \/ ListenerResumes

StorefrontNext == Click \/ FlowSteps

StorefrontInit == SessionInit /\ StorefrontIdle /\ CheckoutIdle /\ WebhookIdle

\* Each fetch and each reading of a body settles, and a settled promise's
\* continuation runs: while some flow can take a step, a step is eventually
\* taken.  Nothing makes the visitor click.
StorefrontSpec == StorefrontInit /\ [][StorefrontNext]_vars /\ WF_vars(FlowSteps)

\* ------------------------------------------------------------------------
\* Checkout submission: properties
\* ------------------------------------------------------------------------

\* The positions in the call history of the calls of one kind.
CallsOf(op) == { i \in DOMAIN calls : calls[i].op = op }

\* The cart of the submission, when it has one.
HasCart == req.cartItems # << >>

Cart == req.cartItems[1]

\* The items of a cart that keeps the data model's invariant: numeric unit
\* prices >= 0 and integer quantities >= 1.
WellFormedItem(item) ==
    /\ item.price.t = "number" /\ ~item.price.nan /\ item.price.v >= 0
    /\ item.quantity.t = "number" /\ ~item.quantity.nan
    /\ item.quantity.v >= Fix /\ item.quantity.v % Fix = 0

WellFormed(cartItems) == \A i \in DOMAIN cartItems : WellFormedItem(cartItems[i])

\* Every unit price is a whole number of cents.
CentPriced(cartItems) ==
    \A i \in DOMAIN cartItems : cartItems[i].price.v % (Fix \div 100) = 0

\* C7: the amount_cents of a payment-key call equals the amount_cents of the
\* order-registration call that precedes it, in the current server and in the
\* earlier one.
C7_NoDriftRegisterToPaymentKey ==
    \A k \in CallsOf("paymobGetPaymentKey") :
        \E r \in CallsOf("paymobRegisterOrder") :
            /\ r < k
            /\ calls[k].amount_cents = calls[r].amount_cents

\* C7 witness: a payment-key call of the current server for two units priced
\* 1.004, where the handler's own total (102.008) is not the registered one (102.00).
C7_Witness ==
    /\ variant = "current"
    /\ HasCart
    /\ Cart = << [price |-> Num(1004), quantity |-> Lit(2)] >>
    /\ locals.totalAmount = Num(102008)
    /\ \E k \in CallsOf("paymobGetPaymentKey") : calls[k].amount_cents = Lit(10200)

\* unitPrice * quantity * 100 of a well-formed item, times Fix
ExactLineMinor(item) == item.price.v * (item.quantity.v \div Fix) * 100

\* sum(unitPrice * quantity) in minor units, times Fix
RECURSIVE ExactItemsMinor(_)
ExactItemsMinor(items) ==
    IF items = << >> THEN 0 ELSE ExactLineMinor(Head(items)) + ExactItemsMinor(Tail(items))

\* round(unitPrice * 100) * quantity of a well-formed item, in cents
RoundedLineCents(item) ==
    ((item.price.v * 100 + Fix \div 2) \div Fix) * (item.quantity.v \div Fix)

\* sum(round(unitPrice * 100) * quantity), in cents
RECURSIVE RoundedItemsCents(_)
RoundedItemsCents(items) ==
    IF items = << >> THEN 0 ELSE RoundedLineCents(Head(items)) + RoundedItemsCents(Tail(items))

\* The shipping fee of 100, in cents.
ShippingCents == 100 * 100

\* C8 (as claimed): for every well-formed cart the total registered with the
\* gateway, in minor units, is sum(unitPrice * quantity) + shipping in minor units.
C8_Claimed_ExactTotal ==
    (variant = "current" /\ HasCart /\ WellFormed(Cart)) =>
        \A r \in CallsOf("paymobRegisterOrder") :
            /\ ~calls[r].amount_cents.nan
            /\ calls[r].amount_cents.v = ExactItemsMinor(Cart) + ShippingCents * Fix

\* C8 (amended): for every well-formed cart the total registered with the
\* gateway is sum(round(unitPrice * 100) * quantity) + 10000 cents; it is
\* sum(unitPrice * quantity) + shipping in minor units when every unit price
\* is a whole number of cents.
C8_RoundedUnitTotal ==
    (variant = "current" /\ HasCart /\ WellFormed(Cart)) =>
        \A r \in CallsOf("paymobRegisterOrder") :
            /\ ~calls[r].amount_cents.nan
            /\ calls[r].amount_cents.v = (RoundedItemsCents(Cart) + ShippingCents) * Fix
            /\ CentPriced(Cart) =>
                  calls[r].amount_cents.v = ExactItemsMinor(Cart) + ShippingCents * Fix

\* C8 witness: one item of price 100 and quantity 2 registered as 30000.
C8_Witness ==
    /\ variant = "current"
    /\ HasCart
    /\ Cart = << [price |-> Lit(100), quantity |-> Lit(2)] >>
    /\ \E r \in CallsOf("paymobRegisterOrder") : calls[r].amount_cents = Lit(30000)

\* C9 (as claimed): the grand total embedded in the commerce order's metadata
\* equals the total the gateway is asked to charge (amount_cents / 100), for
\* every well-formed cart.
C9_Claimed_MetadataAgreesWithGateway ==
    (variant = "current" /\ HasCart /\ WellFormed(Cart)) =>
        \A d \in CallsOf("createDraftOrder") :
            \A r \in CallsOf("paymobRegisterOrder") :
                calls[d].egp_total = JsDiv(calls[r].amount_cents, Lit(100))

\* C10: a pay-on-delivery submission ('cod' in any letter case) issues no
\* authenticate, register-order or payment-key call, whatever its outcome.
C10_CodNeverCallsGateway ==
    (variant = "current" /\ req.paymobMethod \in {"cod", "COD"}) =>
        /\ CallsOf("paymobAuthenticate") = {}
        /\ CallsOf("paymobRegisterOrder") = {}
        /\ CallsOf("paymobGetPaymentKey") = {}

\* C10 witness: a pay-on-delivery submission, sent as 'COD', answered after
\* its order was completed and tagged.
C10_Witness ==
    /\ variant = "current"
    /\ req.paymobMethod = "COD"
    /\ pc = "done"
    /\ CallsOf("tagOrder") # {}
    /\ responses[1].success

\* The submission is handled by the current server and takes, or does not
\* take, the pay-on-delivery branch.
CodSubmission == variant = "current" /\ req.paymobMethod \in { "cod", "COD" }

GatewaySubmission == variant = "current" /\ req.paymobMethod \notin { "cod", "COD" }

\* A catch block of the handler has run; TheError is what it caught.
Caught == locals.error # << >>

TheError == locals.error[1]

\* The elements of a sequence.
Range(seq) == { seq[i] : i \in DOMAIN seq }

\* The calls to the payment gateway; every other call goes to the commerce backend.
GatewayOps == { "paymobAuthenticate", "paymobRegisterOrder", "paymobGetPaymentKey" }

CommerceCalls == { i \in DOMAIN calls : calls[i].op \notin GatewayOps }

\* C11 (as claimed): a pay-on-delivery submission whose draft order was
\* created issues, as its next call, the complete call for that draft order
\* with payment pending; and once that call has succeeded the client is
\* answered success with a non-empty redirectUrl.
C11_Claimed_FinalizedMeansConfirmed ==
    (CodSubmission /\ locals.draftOrder # << >>) =>
        /\ Len(calls) >= 2
        /\ calls[2] = [op |-> "completeDraftOrder", draft |-> locals.draftOrder[1],
                       payment_pending |-> TRUE]
        /\ (pc = "done" /\ locals.shopifyOrderId # << >>) =>
              /\ responses[1].success
              /\ responses[1].redirectUrl # ""

\* The keys of a list that are unset or blank, in order.
MissingIn(keys) == SelectSeq(keys, LAMBDA k : env[k] \in { "unset", "blank" })

\* The variable the integration id of the submission's method comes from
\* ("" when none is set), and whether its value is only white space.
ResolvedIntegration == getPaymobMethodConfig(req.paymobMethod).integrationId

ResolvedIntegrationBlank ==
    IF ResolvedIntegration = "" THEN FALSE ELSE env[ResolvedIntegration] = "blank"

\* A required configuration value is missing or blank.
ConfigIncomplete ==
    \/ MissingIn(<< "SHOPIFY_STORE_DOMAIN", "SHOPIFY_ADMIN_ACCESS_TOKEN", "PAYMOB_API_KEY" >>) # << >>
    \/ ResolvedIntegration = ""
    \/ ResolvedIntegrationBlank

\* C12 (as claimed): when a required configuration value (store domain,
\* access token, payment API key, the integration id resolved for the method)
\* is missing or blank, the submission is answered 500 with success false and
\* no call has been made.
C12_Claimed_ConfigFailsFast ==
    (variant = "current" /\ ConfigIncomplete /\ pc # "idle") =>
        /\ calls = << >>
        /\ pc = "done"
        /\ Len(responses) = 1
        /\ responses[1].status = 500
        /\ ~responses[1].success

\* C13 (as claimed): the error message of a configuration failure lists every
\* missing key, commerce and payment keys together.
C13_Claimed_ListsEveryMissingKey ==
    LET missing == MissingIn(<< "SHOPIFY_STORE_DOMAIN", "SHOPIFY_ADMIN_ACCESS_TOKEN",
                               "PAYMOB_API_KEY" >>)
    IN (variant = "current" /\ pc = "done" /\ missing # << >>) =>
           Range(responses[1].error[2]) = Range(missing)

\* C13 (amended): the error message of a configuration failure lists every
\* missing key of the first group that has one: all the missing commerce keys
\* when there is one, and none of the payment keys; else the missing payment
\* API key; else, for an unset integration id, a fixed message.  No call is made.
C13_ListsFirstMissingGroup ==
    LET missingCommerce == MissingIn(<< "SHOPIFY_STORE_DOMAIN", "SHOPIFY_ADMIN_ACCESS_TOKEN" >>)
        missingPayment == MissingIn(<< "PAYMOB_API_KEY" >>)
    IN (variant = "current" /\ pc = "done") =>
          IF missingCommerce # << >>
          THEN /\ responses = << Failure(500, << "Missing Shopify env vars", missingCommerce >>) >>
               /\ calls = << >>
          ELSE IF missingPayment # << >>
          THEN /\ responses = << Failure(500, << "Missing Paymob env vars", missingPayment >>) >>
               /\ calls = << >>
          ELSE IF ResolvedIntegration = ""
          THEN /\ responses = << Failure(500, "Paymob configuration missing (integration_id)") >>
               /\ calls = << >>
          ELSE TRUE

\* C13 witness: store domain blank, access token and payment API key unset:
\* the message lists the two commerce keys and not the payment key.
C13_Witness ==
    /\ variant = "current"
    /\ pc = "done"
    /\ env["SHOPIFY_STORE_DOMAIN"] = "blank"
    /\ env["SHOPIFY_ADMIN_ACCESS_TOKEN"] = "unset"
    /\ env["PAYMOB_API_KEY"] = "unset"
    /\ responses[1].error[2] = << "SHOPIFY_STORE_DOMAIN", "SHOPIFY_ADMIN_ACCESS_TOKEN" >>

\* The order of the calls of a gateway submission.
GatewaySequence ==
    << "createDraftOrder", "paymobAuthenticate", "paymobRegisterOrder", "paymobGetPaymentKey" >>

\* C14: in a gateway (non-COD) submission every step issues no call or the
\* one call that follows the last one in the order create-order,
\* authenticate, register-order, payment-key, so each is issued at most once;
\* the step in which a call fails issues no call, and no call is issued once
\* the client was answered.
C14_FixedOrderNoRetry ==
    [][ GatewaySubmission =>
          /\ \/ calls' = calls
             \/ /\ Len(calls) < Len(GatewaySequence)
                /\ Len(calls') = Len(calls) + 1
                /\ SubSeq(calls', 1, Len(calls)) = calls
                /\ calls'[Len(calls')].op = GatewaySequence[Len(calls')]
          /\ responses # << >> => calls' = calls
          /\ locals'.error # << >> => (calls' = calls /\ pc' = "done")
      ]_vars

\* C14 witness: the authenticate call failed and the submission ended with
\* the two calls made so far.
C14_Witness ==
    /\ GatewaySubmission
    /\ pc = "done"
    /\ Caught
    /\ TheError.kind = "net"
    /\ Len(calls) = 2
    /\ calls[2].op = "paymobAuthenticate"

\* C15: when a gateway call (authenticate, register-order, payment-key) was
\* rejected after the draft order was created, the only call the submission
\* made to the commerce backend is the one that created the draft order, tagged
\* paymob-pending: it is not deleted, cancelled or completed.
C15_NoRollbackAfterGatewayFailure ==
    (variant = "current" /\ Caught /\ TheError.kind \in { "http", "net" }
        /\ CallsOf("paymobAuthenticate") # {}) =>
        /\ pc = "done"
        /\ CommerceCalls = { 1 }
        /\ calls[1].op = "createDraftOrder"
        /\ calls[1].tags = "paymob-pending,egp-prices"

\* C15 witness: the register-order call was rejected after the draft order
\* was created.
C15_Witness ==
    /\ variant = "current"
    /\ pc = "done"
    /\ Caught
    /\ TheError.kind = "http"
    /\ locals.draftOrder # << >>
    /\ Len(calls) = 3
    /\ calls[3].op = "paymobRegisterOrder"

\* C16: when the create-order, authenticate, register-order or payment-key
\* call is rejected with an HTTP status, the response carries that status and
\* the upstream payload, with success false; a failure without an upstream
\* status is answered 500.
C16_UpstreamStatusPropagated ==
    (variant = "current" /\ Caught /\ CallsOf("completeDraftOrder") = {}) =>
        /\ Len(responses) = 1
        /\ ~responses[1].success
        /\ TheError.kind = "http" =>
              /\ responses[1].status = TheError.status
              /\ responses[1].details = TheError.data
        /\ TheError.kind # "http" => responses[1].status = 500

\* C16 witness: the payment-key call rejected with 422 and a payload.
C16_Witness ==
    /\ variant = "current"
    /\ Caught
    /\ TheError = [kind |-> "http", status |-> 422, data |-> "upstream payload"]
    /\ Len(calls) = 4
    /\ responses[1].status = 422
    /\ responses[1].details = "upstream payload"

C22_Claimed_SuccessCarriesUrl ==
    (variant = "current" /\ pc = "done" /\ responses[1].success) =>
        IF req.paymobMethod \in { "cod", "COD" }
        THEN responses[1].redirectUrl # ""
        ELSE responses[1].paymentUrl # "null"

\* The price and quantity of an item once defaulted as the claim says: a
\* missing or non-numeric price is 0, a missing quantity is 1.
DefaultedPrice(item) ==
    IF item.price.t = "number" /\ ~item.price.nan THEN item.price.v ELSE 0

DefaultedQuantity(item) ==
    IF item.quantity.t = "number" /\ ~item.quantity.nan THEN item.quantity.v \div Fix ELSE 1

\* sum(price * quantity) over the defaulted items, times Fix
RECURSIVE DefaultedItemsTotal(_)
DefaultedItemsTotal(items) ==
    IF items = << >> THEN 0
    ELSE DefaultedPrice(Head(items)) * DefaultedQuantity(Head(items))
            + DefaultedItemsTotal(Tail(items))

\* round(price * 100) of a defaulted item, in cents
DefaultedUnitCents(item) == (DefaultedPrice(item) * 100 + Fix \div 2) \div Fix

\* sum(round(price * 100) * quantity) over the defaulted items, in cents
RECURSIVE DefaultedItemsCents(_)
DefaultedItemsCents(items) ==
    IF items = << >> THEN 0
    ELSE DefaultedUnitCents(Head(items)) * DefaultedQuantity(Head(items))
            + DefaultedItemsCents(Tail(items))

\* C25 (as claimed): malformed cart entries are defaulted, price to 0 and
\* quantity to 1, in the total stored with the draft order and in the item
\* amounts and the total registered with the gateway alike.
C25_Claimed_DefaultedConsistently ==
    (variant = "current" /\ HasCart) =>
        /\ \A d \in CallsOf("createDraftOrder") :
              calls[d].egp_total = Num(DefaultedItemsTotal(Cart) + 100 * Fix)
        /\ \A r \in CallsOf("paymobRegisterOrder") :
              /\ calls[r].amount_cents = Num((DefaultedItemsCents(Cart) + ShippingCents) * Fix)
              /\ \A i \in DOMAIN Cart :
                    /\ calls[r].items[i].amount_cents = Num(DefaultedUnitCents(Cart[i]) * Fix)
                    /\ calls[r].items[i].quantity = Lit(DefaultedQuantity(Cart[i]))

\* C23: every submission ends with exactly one response: there are never two
\* responses, a response is sent exactly when the handler is over, and, every
\* collaborator call returning or failing, the handler is eventually over
\* with its one response, for good.
C23_ExactlyOneResponseEventually ==
    /\ [](Len(responses) <= 1)
    /\ [](pc = "done" <=> Len(responses) = 1)
    /\ <>[](pc = "done" /\ Len(responses) = 1)

\* A gateway submission over after its four calls, with its one response.
C23_Witness ==
    /\ GatewaySubmission
    /\ pc = "done"
    /\ Len(calls) = 4
    /\ Len(responses) = 1
    /\ responses[1].success

\* ------------------------------------------------------------------------
\* Webhook: properties
\* ------------------------------------------------------------------------

\* The keyed hash of the notification can be computed: the secret is
\* configured and the concatenation of the fields is a string.
HashComputable ==
    /\ env["PAYMOB_HMAC"] # "unset"
    /\ ConcatenatedString(hookReq.data).t = "string"

\* The keyed hash the server computes over the notification it received.
RecomputedHash == Hmac("PAYMOB_HMAC", ConcatenatedString(hookReq.data).s)

\* The notification was handled and its signature is the recomputed hash.
VerificationPassed ==
    /\ hookPc # "idle"
    /\ HashComputable
    /\ RecomputedHash = hookReq.hmac

\* C18: a notification whose recomputed keyed hash differs from the signature
\* it came with (a signed field was changed, another secret was used, or
\* there is no signature) is answered 400 and nothing else; no notification
\* that fails verification causes a call to the commerce backend.
C18_BadSignatureRejected ==
    /\ (hookPc # "idle" /\ HashComputable /\ RecomputedHash # hookReq.hmac) =>
          /\ hookResponses = << HookError(400, "Invalid HMAC signature") >>
          /\ hookPc = "done"
          /\ calls = << >>
    /\ (hookPc # "idle" /\ ~VerificationPassed) => calls = << >>

\* C18 witness: a success notification for amount 99 that carries the
\* signature of the same notification for amount 10000, answered 400.
C18_Witness ==
    /\ hookPc = "done"
    /\ env["PAYMOB_HMAC"] = "set"
    /\ hookReq.data.amount_cents = JsString("99")
    /\ hookReq.data.success = JsString("true")
    /\ hookReq.hmac =
          Hmac("PAYMOB_HMAC",
               ConcatenatedString([hookReq.data EXCEPT !.amount_cents = JsString("10000")]).s)
    /\ hookResponses[1].status = 400

\* C19 (as claimed): once the signature verification has passed, the webhook
\* endpoint answers a notification that names its order with 200
\* { received: true }, whether the calls to the commerce backend succeed or fail.
C19_Claimed_Always200OnceVerified ==
    (VerificationPassed /\ hookReq.data.order.t = "object") =>
        \A i \in DOMAIN hookResponses : hookResponses[i] = HookReceived

\* C20: a notification with a valid signature and success false (the boolean
\* or the string) is answered 200 { received: true } and causes no call to
\* the commerce backend.
C20_FailedPaymentAcknowledged ==
    (VerificationPassed /\ hookReq.data.success \in { JsString("false"), JsBoolean(FALSE) }) =>
        /\ hookPc = "done"
        /\ hookResponses = << HookReceived >>
        /\ calls = << >>

\* C20 witness: a verified notification with the string 'false' acknowledged.
C20_Witness ==
    /\ VerificationPassed
    /\ hookReq.data.success = JsString("false")
    /\ hookReq.data.order = JsObject("draft-1")
    /\ hookResponses = << HookReceived >>

\* The complete calls in the call history.
CompleteCalls == CallsOf("completeDraftOrder")

\* C21: a notification with a valid signature and success true (the boolean
\* or the string 'true') whose order carries a merchant order id leads to the
\* complete call, payment not pending, for that order and no other; the call
\* is issued in the handler's first step, before any response.
C21_VerifiedSuccessFinalizesOrder ==
    (VerificationPassed /\ hookReq.data.success \in { JsString("true"), JsBoolean(TRUE) }
        /\ hookReq.data.order.t = "object") =>
        /\ CompleteCalls = { 1 }
        /\ calls[1] = [op |-> "completeDraftOrder", draft |-> hookReq.data.order.s,
                       payment_pending |-> FALSE]
        /\ hookPc \in { "awaitComplete", "awaitTag" } => hookResponses = << >>
        /\ hookResponses # << >> => hookPc = "done"

\* C21 witness: the boolean true, order draft-2: completed, then acknowledged.
C21_Witness ==
    /\ VerificationPassed
    /\ hookReq.data.success = JsBoolean(TRUE)
    /\ hookReq.data.order = JsObject("draft-2")
    /\ calls[1].draft = "draft-2"
    /\ hookResponses = << HookReceived >>

\* ------------------------------------------------------------------------
\* Session store: properties
\* ------------------------------------------------------------------------

\* The step just taken answered a checkout-page request.
PageAnswered == pageResponse.status # 0

\* The request just answered found its token in the store.
PageFound == PageAnswered /\ pageResponse.token \in DOMAIN pageResponse.before

\* C1: no token is answered with its cart more than once: a request for a
\* token whose page was already returned is answered 404, at any later time,
\* and a served token is no longer in the store.
C1_CartServedAtMostOnce ==
    /\ \A t \in Tokens : CopiesIn(t, served) <= 1
    /\ \A t \in Tokens : CopiesIn(t, served) > 0 => t \notin DOMAIN checkoutSessions
    /\ (PageAnswered /\ pageResponse.servedBefore > 0) =>
          (pageResponse.status = 404 /\ pageResponse.page = << >>)

\* C1 witness: a second request for a served token, long after, answered 404.
C1_Witness ==
    /\ PageAnswered
    /\ pageResponse.servedBefore = 1
    /\ pageResponse.status = 404
    /\ now > 2 * SESSION_TTL_MS
    /\ Cardinality(DOMAIN posted) = MaxTokens

\* C2: round trip: the first checkout-page request for an issued token, within
\* the TTL, returns the page of exactly the cart that was posted with it; a
\* request after the cart was returned gets 404.
C2_RoundTrip ==
    /\ (PageAnswered /\ pageResponse.token \in DOMAIN posted
          /\ pageResponse.servedBefore = 0 /\ pageResponse.expiredBefore = 0) =>
            /\ PageFound
            /\ pageResponse.age <= SESSION_TTL_MS =>
                  /\ pageResponse.status = 200
                  /\ pageResponse.page = << posted[pageResponse.token] >>
    /\ (PageAnswered /\ pageResponse.status = 200) =>
            /\ pageResponse.token \in DOMAIN posted
            /\ pageResponse.page = << posted[pageResponse.token] >>
    /\ (PageAnswered /\ pageResponse.servedBefore > 0) => pageResponse.status = 404

\* C2 witness: a cart returned for one token while another token with a
\* different cart had been issued as well.
C2_Witness ==
    /\ PageAnswered
    /\ pageResponse.status = 200
    /\ pageResponse.page = << CartPayload >>
    /\ \E t \in DOMAIN posted : t # pageResponse.token /\ posted[t] # CartPayload

\* C3: of two checkout-page requests for the same token that are in flight
\* together, at most one gets the cart: the one handled after the other got
\* the cart is answered 404, and finds no entry.
C3_SimultaneousRequests ==
    /\ (PageAnswered /\ pageResponse.rival) =>
          /\ pageResponse.status = 404
          /\ pageResponse.page = << >>
    /\ \A r \in DOMAIN inflight : r.rival => r.token \notin DOMAIN checkoutSessions

\* C3 witness: a request answered 404 that was in flight when another request
\* for the same token got the cart.
C3_Witness ==
    /\ PageAnswered
    /\ pageResponse.rival
    /\ pageResponse.status = 404
    /\ pageResponse.servedBefore = 1

\* C4: a request for a stored token older than the TTL is answered 410
\* without the cart and removes the entry; a later request for the token is
\* answered 404, so 410 is sent at most once per token.
C4_ExpiredOnceThenNotFound ==
    /\ (PageFound /\ pageResponse.age > SESSION_TTL_MS) =>
          /\ pageResponse.status = 410
          /\ pageResponse.page = << >>
          /\ pageResponse.token \notin DOMAIN checkoutSessions
    /\ (PageAnswered /\ pageResponse.expiredBefore > 0) => pageResponse.status = 404
    /\ \A t \in Tokens : CopiesIn(t, expiredSeen) <= 1

\* C4 witness: a request answered 404 for a token that was reported expired.
C4_Witness ==
    /\ PageAnswered
    /\ pageResponse.expiredBefore = 1
    /\ pageResponse.status = 404

\* C5 (as claimed): a request arriving when the age is exactly the TTL does
\* not return the cart.
C5_Claimed_GoneAtTTL ==
    (PageFound /\ pageResponse.age = SESSION_TTL_MS) => pageResponse.status # 200

\* C5 (amended): a stored session is live while 0 <= age <= TTL and gone once
\* age > TTL: a request at age exactly TTL returns the cart, one at a greater
\* age does not.
C5_LiveThroughTTL ==
    PageFound =>
        /\ pageResponse.age >= 0
        /\ pageResponse.age <= SESSION_TTL_MS => pageResponse.status = 200
        /\ pageResponse.age > SESSION_TTL_MS => pageResponse.status = 410

\* C5 witness: the cart returned at age exactly TTL.
C5_Witness ==
    /\ PageFound
    /\ pageResponse.age = SESSION_TTL_MS
    /\ pageResponse.status = 200

\* C6: missing token is answered 400, a token not in the store 404, a stored
\* but expired token 410; the 400 and 404 answers leave the store unchanged.
C6_FailureStatuses ==
    PageAnswered =>
        /\ pageResponse.token = NoToken <=> pageResponse.status = 400
        /\ (pageResponse.token # NoToken /\ ~PageFound) <=> pageResponse.status = 404
        /\ (PageFound /\ pageResponse.age > SESSION_TTL_MS) <=> pageResponse.status = 410
        /\ pageResponse.status \in {400, 404} => checkoutSessions = pageResponse.before

\* C6 witness: a 400 answer while the store holds a session.
C6_Witness ==
    /\ PageAnswered
    /\ pageResponse.status = 400
    /\ DOMAIN checkoutSessions # {}

\* A step taken by a checkout-page request for token k that was answered.
PageStepFor(k) == pageResponse'.token = k /\ pageResponse'.status # 0

\* C24: the session store changes only as follows.  An entry is removed only
\* by a checkout-page request for its own token (answered with the cart or
\* with 'expired'); every other entry is left as it was by every step; an
\* intake adds exactly one entry, under a new token and stamped with the
\* current time; the passing of time removes nothing.  So a session whose
\* page was never requested is still in the store, with the cart posted,
\* however long ago it was created.
C24_RemovedOnlyByOwnPageRequest ==
    /\ [][/\ \A k \in DOMAIN checkoutSessions :
                IF k \in DOMAIN checkoutSessions'
                THEN checkoutSessions'[k] = checkoutSessions[k]
                ELSE PageStepFor(k) /\ pageResponse'.status \in { 200, 410 }
          /\ \A k \in Tokens : PageStepFor(k) =>
                \A j \in DOMAIN checkoutSessions \ {k} :
                    j \in DOMAIN checkoutSessions' /\ checkoutSessions'[j] = checkoutSessions[j]
          /\ pageResponse'.status # 0 => DOMAIN checkoutSessions' \subseteq DOMAIN checkoutSessions
          /\ posted' # posted =>
                /\ DOMAIN checkoutSessions \subseteq DOMAIN checkoutSessions'
                /\ \E t \in Tokens \ DOMAIN checkoutSessions :
                      /\ DOMAIN checkoutSessions' = DOMAIN checkoutSessions \cup {t}
                      /\ checkoutSessions'[t].createdAt = now
                      /\ checkoutSessions'[t].cart = posted'[t]
          /\ (posted' = posted /\ pageResponse'.status = 0) =>
                checkoutSessions' = checkoutSessions
         ]_vars
    /\ [](\A k \in DOMAIN posted :
            (CopiesIn(k, served) = 0 /\ CopiesIn(k, expiredSeen) = 0) =>
                /\ k \in DOMAIN checkoutSessions
                /\ checkoutSessions[k].cart = posted[k])

\* A session long past its time to live is still in the store, next to a
\* session that a page request has removed.
C24_Witness ==
    \E k \in DOMAIN checkoutSessions :
        /\ now - checkoutSessions[k].createdAt > SESSION_TTL_MS
        /\ \E j \in DOMAIN posted : j # k /\ j \notin DOMAIN checkoutSessions

\* The deliveries of the notification whose handling has begun.
DeliveriesBegun == Len(hookResponses) + (IF hookPc \in { "idle", "done" } THEN 0 ELSE 1)

\* C27: the notification handler remembers nothing.  Every delivery of a
\* notification that passes verification and reports success issues its own
\* call completing the draft order, the same call each time: after N
\* deliveries there are N such calls, whether the deliveries before were
\* answered 200 or 500.
C27_EveryDeliveryFinalizesAgain ==
    (/\ HashComputable
     /\ RecomputedHash = hookReq.hmac
     /\ hookReq.data.success \in { JsString("true"), JsBoolean(TRUE) }) =>
        /\ Cardinality(CompleteCalls) = DeliveriesBegun
        /\ \A i \in CompleteCalls :
              calls[i] = [op |-> "completeDraftOrder", draft |-> hookReq.data.order.s,
                          payment_pending |-> FALSE]

\* Two deliveries, the first answered 500 after its call failed, the second
\* acknowledged: two calls completing the same draft order.
C27_Witness ==
    /\ Len(hookResponses) = 2
    /\ hookResponses[1].status = 500
    /\ hookResponses[2] = HookReceived
    /\ Cardinality(CompleteCalls) = 2
    /\ calls[1] = calls[2]

\* ------------------------------------------------------------------------
\* Submission and notification together: properties
\* ------------------------------------------------------------------------

\* The calls added to the history by the step.
NewCalls == { calls'[i] : i \in (DOMAIN calls') \ (DOMAIN calls) }

\* The step is one of the notification handler.
HookStep == hookPc' # hookPc

\* C26: while a gateway (non pay-on-delivery) submission is handled, the
\* submission handler issues no call completing a draft order; a call
\* completing a draft order is issued only by the notification handler, for
\* a notification that passed verification and reports success true or
\* 'true', for the merchant order id of that notification, and with
\* payment_pending false.
C26_GatewayOrderFinalizedOnlyByWebhook ==
    /\ [][GatewaySubmission =>
            \A c \in NewCalls : c.op = "completeDraftOrder" =>
                /\ pc' = pc
                /\ hookPc = "idle" /\ hookPc' = "awaitComplete"
                /\ HashComputable
                /\ RecomputedHash = hookReq.hmac
                /\ hookReq.data.success \in { JsString("true"), JsBoolean(TRUE) }
                /\ c.draft = hookReq.data.order.s
                /\ c.payment_pending = FALSE
         ]_vars
    /\ [](GatewaySubmission =>
            /\ \A i \in CompleteCalls : ~calls[i].payment_pending /\ VerificationPassed
            /\ Cardinality(CompleteCalls) <= 1)

\* A gateway submission got its payment URL, and the draft order was then
\* completed by a verified notification of success.
C26_Witness ==
    /\ GatewaySubmission
    /\ pc = "done" /\ responses[1].success
    /\ Len(calls) = 5
    /\ calls[5].op = "completeDraftOrder"
    /\ calls[5].draft = calls[3].merchant_order_id
    /\ hookPc = "done"

\* The payment method a tagging call names by its three flags, "" unless
\* exactly one flag is 'true' and the others are 'false'.
FlaggedMethod(c) ==
    IF << c.is_cod, c.is_card, c.is_wallet >> = << "true", "false", "false" >> THEN "cod"
    ELSE IF << c.is_cod, c.is_card, c.is_wallet >> = << "false", "true", "false" >> THEN "card"
    ELSE IF << c.is_cod, c.is_card, c.is_wallet >> = << "false", "false", "true" >> THEN "wallet"
    ELSE ""

\* The source types that read 'wallet' when letter case is ignored.
WalletSourceTypes == { JsString("wallet"), JsString("WALLET"), JsString("Wallet") }

\* C28: every tagging call carries exactly one 'true' flag among is_cod,
\* is_card and is_wallet, and its payment_method names that flag.  The
\* submission handler writes cod; the notification handler writes wallet
\* exactly when the notification's source type is 'wallet' in any letter
\* case, card otherwise (an absent source type included), and never cod.
C28_TagsNameExactlyOneMethod ==
    /\ [](\A i \in CallsOf("tagOrder") :
            /\ calls[i].payment_method \in { "cod", "card", "wallet" }
            /\ FlaggedMethod(calls[i]) = calls[i].payment_method)
    /\ [][\A c \in NewCalls : c.op = "tagOrder" =>
            IF HookStep
            THEN c.payment_method =
                    IF hookReq.data.source_data_type \in WalletSourceTypes THEN "wallet" ELSE "card"
            ELSE c.payment_method = "cod"
         ]_vars

\* A pay-on-delivery order tagged cod by the submission, and an order tagged
\* wallet for a notification whose source type is 'WALLET'.
C28_Witness ==
    /\ hookReq.data.source_data_type = JsString("WALLET")
    /\ \E i, j \in CallsOf("tagOrder") :
          /\ calls[i].payment_method = "cod"
          /\ calls[j].payment_method = "wallet" /\ calls[j].is_wallet = "true"

\* ------------------------------------------------------------------------
\* Resolution of the gateway identifiers: properties
\* ------------------------------------------------------------------------

CodNames == { "cod", "Cod", "COD" }

WalletNames == { "wallet", "Wallet", "WALLET" }

CardNames == { "card", "Card", "CARD" }

\* The identifier under `specific` when it is set, else the one under `default`
\* when that is set, else none.
SpecificOrDefault(specific, default) ==
    IF env[specific] # "unset" THEN specific
    ELSE IF env[default] # "unset" THEN default
    ELSE ""

\* What the resolution is to return for the method of the submission.
ExpectedConfig ==
    IF req.paymobMethod \in CardNames
    THEN [integrationId |-> SpecificOrDefault("PAYMOB_INTEGRATION_ID_CARD", "PAYMOB_INTEGRATION_ID"),
          iframeId |-> SpecificOrDefault("PAYMOB_IFRAME_ID_CARD", "PAYMOB_IFRAME_ID")]
    ELSE IF req.paymobMethod \in WalletNames
    THEN [integrationId |-> SpecificOrDefault("PAYMOB_INTEGRATION_ID_WALLET", "PAYMOB_INTEGRATION_ID"),
          iframeId |-> SpecificOrDefault("PAYMOB_IFRAME_ID_WALLET", "PAYMOB_IFRAME_ID")]
    ELSE IF req.paymobMethod \in CodNames
    THEN [integrationId |-> SpecificOrDefault("PAYMOB_INTEGRATION_ID_COD", "PAYMOB_INTEGRATION_ID"),
          iframeId |-> ""]
    ELSE [integrationId |-> SpecificOrDefault("PAYMOB_INTEGRATION_ID", "PAYMOB_INTEGRATION_ID"),
          iframeId |-> SpecificOrDefault("PAYMOB_IFRAME_ID", "PAYMOB_IFRAME_ID")]

\* C29: for 'card' and 'wallet' in any letter case the integration id and the
\* template id are each the method's own when set and the default one
\* otherwise; for 'cod' the template id is none; for another or a missing
\* method both are the defaults.  The handler works with these identifiers
\* (the integration id it sends, the template id of the payment URL), and
\* it takes the pay-on-delivery branch exactly for the methods resolved as
\* 'cod'.
C29_IdentifiersResolvedPerMethod ==
    /\ getPaymobMethodConfig(req.paymobMethod) = ExpectedConfig
    /\ \A i \in CallsOf("createDraftOrder") : locals.paymobConfig = ExpectedConfig
    /\ \A i \in CallsOf("paymobGetPaymentKey") :
          calls[i].integration_id = ExpectedConfig.integrationId
    /\ (pc = "done" /\ responses[1].success /\ req.paymobMethod \notin CodNames) =>
          responses[1].paymentUrl =
              IF ExpectedConfig.iframeId = "" THEN "null" ELSE "iframes/" \o ExpectedConfig.iframeId
    /\ CompleteCalls # {} => req.paymobMethod \in CodNames
    /\ CallsOf("paymobAuthenticate") # {} => req.paymobMethod \notin CodNames
    /\ (pc = "done" /\ responses[1].success) =>
          (responses[1].redirectUrl # "" <=> req.paymobMethod \in CodNames)

\* 'WALLET' with the wallet integration id unset and the wallet template set:
\* the payment key is asked under the default integration id and the page is
\* the wallet template.
C29_Witness ==
    /\ req.paymobMethod = "WALLET"
    /\ env["PAYMOB_INTEGRATION_ID_WALLET"] = "unset"
    /\ env["PAYMOB_IFRAME_ID_WALLET"] = "set"
    /\ pc = "done" /\ responses[1].success
    /\ calls[4].integration_id = "PAYMOB_INTEGRATION_ID"
    /\ responses[1].paymentUrl = "iframes/PAYMOB_IFRAME_ID_WALLET"

\* ------------------------------------------------------------------------
\* Storefront script: properties
\* ------------------------------------------------------------------------

\* The flow of click i detected 'EG', read a cart with items, and was
\* answered success with a redirectUrl.
RedirectOffered(i) ==
    /\ flows[i].country = "EG"
    /\ flows[i].cartData # << >>
    /\ Len(flows[i].cartData[1].items) > 0
    /\ flows[i].data # << >>
    /\ flows[i].data[1].success
    /\ flows[i].data[1].redirectUrl # ""

\* Exactly one navigation per intercepted click, eventually, and none for
\* another click.
OneNavigationPerClick ==
    /\ [](\A i \in ClickIds :
            /\ Len(flows[i].nav) <= 1
            /\ flows[i].pc = "done" => Len(flows[i].nav) = 1
            /\ ~flows[i].prevented => flows[i].nav = << >>)
    /\ \A i \in ClickIds : (flows[i].prevented ~> flows[i].pc = "done")

\* C30 as stated: after an intercepted click exactly one navigation
\* eventually happens, to the backend's redirectUrl if and only if the
\* country is 'EG', the cart has items and the backend answered success with
\* a redirectUrl, to '/checkout' in every other case.
C30_Claimed_RedirectIffOffered ==
    /\ OneNavigationPerClick
    /\ [](\A i \in ClickIds : flows[i].pc = "done" =>
            flows[i].nav = << IF RedirectOffered(i) THEN flows[i].data[1].redirectUrl
                              ELSE "/checkout" >>)

\* C30, amended: the navigation goes to the redirectUrl if and only if,
\* besides, the redirectUrl can be parsed as a URL; a redirectUrl that the
\* href setter rejects sends the visitor to '/checkout' like every other
\* failure.  Still exactly one navigation, never both and never neither.
C30_RedirectIffOfferedAndParseable ==
    /\ OneNavigationPerClick
    /\ [](\A i \in ClickIds : flows[i].pc = "done" =>
            flows[i].nav = << IF RedirectOffered(i) /\ flows[i].data[1].redirectUrl # NotAUrl
                              THEN flows[i].data[1].redirectUrl
                              ELSE "/checkout" >>)

\* Two clicks: the flow of one went to the checkout page of the backend, the
\* flow of the other, offered a redirectUrl that is no URL, went to '/checkout'.
C30_Witness ==
    \E i, j \in ClickIds :
        /\ flows[i].pc = "done" /\ flows[i].nav = << PageUrl >>
        /\ flows[j].pc = "done" /\ RedirectOffered(j) /\ flows[j].nav = << "/checkout" >>

====
